---------------------------- MODULE Spec2Model ----------------------------
(***************************************************************************)
(* AdCopy: the in-memory store (server/storage.ts), the authentication     *)
(* middleware (server/middleware/auth.ts), the ad routes (server/routes)   *)
(* and the optimization-suggestion engine (server/lib/optimization.ts).    *)
(*                                                                         *)
(* Conventions of the model                                                *)
(*  - a text is a sequence of one-character strings, so that split, join,  *)
(*    toLowerCase and length are computed character by character;          *)
(*  - a click-through rate is an integer number of thousandths (0.02 is    *)
(*    20), and a mean is kept as the pair total/count and compared by      *)
(*    cross-multiplication (exact arithmetic in place of IEEE doubles);    *)
(*  - time is counted in whole days;                                       *)
(*  - a Map is a sequence of its values in insertion order; an entry of    *)
(*    generatedAds carries its Map key in the field key, next to the ad's  *)
(*    own fields (id among them).                                          *)
(***************************************************************************)
EXTENDS Integers, Sequences, FiniteSets, TLC

VARIABLES
    users,                  \* MemStorage.users
    userSettings,           \* MemStorage.userSettings
    campaigns,              \* MemStorage.campaigns
    generatedAds,           \* MemStorage.generatedAds
    apiUsage,               \* MemStorage.apiUsage
    currentUserId,
    currentUserSettingsId,
    currentCampaignId,
    currentGeneratedAdId,
    currentApiUsageId,
    now,                    \* Date.now(), in days
    response,               \* the response of the last request served
    loaded,                 \* the ad list a request holds: a suggestion request in
                            \* flight, or GET /api/ads when it answers
    saving                  \* the variants a generation request in flight has yet to save

storeVars == <<users, userSettings, campaigns, generatedAds, apiUsage,
               currentUserId, currentUserSettingsId, currentCampaignId,
               currentGeneratedAdId, currentApiUsageId>>

vars == <<users, userSettings, campaigns, generatedAds, apiUsage,
          currentUserId, currentUserSettingsId, currentCampaignId,
          currentGeneratedAdId, currentApiUsageId, now, response, loaded, saving>>

-----------------------------------------------------------------------------
(* Bounds of the model *)

MaxAdId == 3            \* ids createGeneratedAd hands out under Spec
MaxApiUsage == 2        \* usage records the store holds under Spec
MaxNow == 31            \* the clock stops here under Spec
MaxUsers == 2           \* users the store holds
MaxEngineAds == 5       \* length of the ad lists drawn under SpecEngine
MaxPatternAds == 4      \* length of the lists of the headline family
MaxKeywordAds == 4      \* length of the lists of the keyword family
MaxMalformedAds == 5    \* length of the lists of the malformed-performance family
MaxHeadlineAds == 4     \* length of the lists of the headline-group family
MaxToneAds == 4         \* length of the lists of the tone family
MaxLengthAds == 6       \* length of the lists of the headline-length family
MaxSampleAds == 11      \* length of the lists of the keyword-sample family
MaxThresholdAds == 4    \* length of the lists of the keyword-threshold family
MaxFullAds == 5         \* length of the lists of the family that fires every analyzer
MaxStoredAds == 2       \* number of ads the store of the ad routes starts with

-----------------------------------------------------------------------------
(* Program constants *)

MinAdsForAnalysis == 3      \* ads.length < 3
HeadlineCtrThreshold == 20  \* avgCtr > 0.02
ToneCtrThreshold == 20      \* ctr > 0.02
MinGroupCount == 2          \* data.count >= 2
MinLengthSamples == 5       \* lengthData.length >= 5
KeywordCtrThreshold == 25   \* ctr > 0.025
MaxKeywordSample == 10      \* slice(0, 10)
MinKeywordSample == 3       \* highPerformingAds.length >= 3
MinWordLength == 3          \* word.length > 3
MinWordCount == 2           \* count >= 2
MaxCommonWords == 5         \* slice(0, 5)
NamedWords == 3             \* commonWords.slice(0, 3)
PatternWords == 3           \* split(' ').slice(0, 3)
TopPatterns == 3            \* slice(0, 3)
RecentWindowDays == 30      \* daysSinceCreated <= 30
MinRecentAds == 5           \* recentAds.length < 5
DemoUserId == 1             \* the demo user of the constructor

Min(a, b) == IF a < b THEN a ELSE b

-----------------------------------------------------------------------------
(* Texts *)

Whitespace == {" ", "\t", "\n"}

\* String.prototype.toLowerCase on one character
LowerChar(c) ==
    CASE c = "A" -> "a" [] c = "B" -> "b" [] c = "C" -> "c" [] c = "D" -> "d"
      [] c = "E" -> "e" [] c = "F" -> "f" [] c = "G" -> "g" [] c = "H" -> "h"
      [] c = "I" -> "i" [] c = "J" -> "j" [] c = "K" -> "k" [] c = "L" -> "l"
      [] c = "M" -> "m" [] c = "N" -> "n" [] c = "O" -> "o" [] c = "P" -> "p"
      [] c = "Q" -> "q" [] c = "R" -> "r" [] c = "S" -> "s" [] c = "T" -> "t"
      [] c = "U" -> "u" [] c = "V" -> "v" [] c = "W" -> "w" [] c = "X" -> "x"
      [] c = "Y" -> "y" [] c = "Z" -> "z" [] OTHER -> c

toLowerCase(s) == [i \in 1..Len(s) |-> LowerChar(s[i])]

\* s.split(' '): the pieces between single spaces, empty pieces kept
RECURSIVE SplitSpaceFrom(_, _, _)
SplitSpaceFrom(s, cur, out) ==
    IF s = <<>> THEN Append(out, cur)
    ELSE IF Head(s) = " " THEN SplitSpaceFrom(Tail(s), <<>>, Append(out, cur))
    ELSE SplitSpaceFrom(Tail(s), Append(cur, Head(s)), out)

splitSpace(s) == SplitSpaceFrom(s, <<>>, <<>>)

\* s.split(/\s+/): a run of whitespace is one separator
RECURSIVE SplitRunsFrom(_, _, _, _)
SplitRunsFrom(s, cur, out, inRun) ==
    IF s = <<>> THEN Append(out, cur)
    ELSE IF Head(s) \in Whitespace
         THEN IF inRun THEN SplitRunsFrom(Tail(s), cur, out, TRUE)
              ELSE SplitRunsFrom(Tail(s), <<>>, Append(out, cur), TRUE)
    ELSE SplitRunsFrom(Tail(s), Append(cur, Head(s)), out, FALSE)

splitWhitespace(s) == SplitRunsFrom(s, <<>>, <<>>, FALSE)

\* Array.prototype.slice(0, n)
slice0(s, n) == SubSeq(s, 1, Min(n, Len(s)))

\* Array.prototype.join(' ')
RECURSIVE joinSpace(_)
joinSpace(parts) ==
    IF parts = <<>> THEN <<>>
    ELSE IF Len(parts) = 1 THEN parts[1]
    ELSE parts[1] \o <<" ">> \o joinSpace(Tail(parts))

T_with == <<"w", "i", "t", "h">>
T_your == <<"y", "o", "u", "r">>
T_that == <<"t", "h", "a", "t">>
T_this == <<"t", "h", "i", "s">>
T_from == <<"f", "r", "o", "m">>
T_will == <<"w", "i", "l", "l">>
T_have == <<"h", "a", "v", "e">>

StopWords == {T_with, T_your, T_that, T_this, T_from, T_will, T_have}

-----------------------------------------------------------------------------
(* Suggestions (OptimizationSuggestion).  title, basedOn and the free-text  *)
(* description are kept as the template's name plus the values it          *)
(* interpolates: texts (the pattern or the words named), tone, numbers     *)
(* (minimum, maximum and optimal length) and basedOnCount.                 *)

Suggestion(type, priority, title, confidence, texts, tone, numbers, basedOn, basedOnCount) ==
    [type |-> type, priority |-> priority, title |-> title, confidence |-> confidence,
     texts |-> texts, tone |-> tone, numbers |-> numbers,
     basedOn |-> basedOn, basedOnCount |-> basedOnCount]

\* ad.performance is truthy
HasPerformance(ad) == ad.performance.kind # "null"

\* ad.performance && typeof ad.performance === 'object'
IsPerformanceAd(ad) == ad.performance.kind = "object"

\* a test that takes a missing click-through rate for a rate to be counted
HasCtrOrNone(ad) ==
    /\ ad.performance.kind = "object"
    /\ ~ad.performance.hasCtr \/ ad.performance.ctr # 0

\* ad.performance is truthy and perf.ctr is truthy
HasCtr(ad) ==
    /\ HasPerformance(ad)
    /\ ad.performance.kind = "object"
    /\ ad.performance.hasCtr
    /\ ad.performance.ctr # 0

\* patterns.get(key) || {total: 0, count: 0}; total += ctr; count++; patterns.set(key, existing)
mapAdd(m, key, ctr) ==
    IF \E i \in 1..Len(m) : m[i].key = key
    THEN [i \in 1..Len(m) |->
            IF m[i].key = key
            THEN [key |-> key, total |-> m[i].total + ctr, count |-> m[i].count + 1]
            ELSE m[i]]
    ELSE Append(m, [key |-> key, total |-> ctr, count |-> 1])

\* a.avgCtr < b.avgCtr, the means being total / count with count > 0
AvgLess(a, b) == a.total * b.count < b.total * a.count

\* sort((a, b) => b.avgCtr - a.avgCtr): a stable sort, as Array.prototype.sort is
RECURSIVE insertByAvg(_, _)
insertByAvg(sorted, x) ==
    IF sorted = <<>> THEN <<x>>
    ELSE IF AvgLess(Head(sorted), x) THEN <<x>> \o sorted
    ELSE <<Head(sorted)>> \o insertByAvg(Tail(sorted), x)

RECURSIVE sortByAvgFrom(_, _)
sortByAvgFrom(rest, sorted) ==
    IF rest = <<>> THEN sorted
    ELSE sortByAvgFrom(Tail(rest), insertByAvg(sorted, Head(rest)))

sortByAvgDesc(entries) == sortByAvgFrom(entries, <<>>)

\* ad.headline.split(' ').slice(0, 3).join(' ')
headlinePattern(headline) == joinSpace(slice0(splitSpace(headline), PatternWords))

RECURSIVE patternMap(_, _)
patternMap(ads, m) ==
    IF ads = <<>> THEN m
    ELSE LET ad == Head(ads) IN
         patternMap(Tail(ads),
                    IF HasCtr(ad)
                    THEN mapAdd(m, headlinePattern(ad.headline), ad.performance.ctr)
                    ELSE m)

extractHeadlinePatterns(ads) ==
    SelectSeq(patternMap(ads, <<>>), LAMBDA e : e.count >= MinGroupCount)

\* a headline analyzer that emits a suggestion for each of the top patterns
analyzeHeadlinePerformanceEachPattern(ads) ==
    LET topPerforming == slice0(sortByAvgDesc(extractHeadlinePatterns(ads)), TopPatterns)
        above == SelectSeq(topPerforming,
                           LAMBDA p : p.total > HeadlineCtrThreshold * p.count)
    IN  [i \in 1..Len(above) |->
            Suggestion("headline", "high", "Optimize Headlines Based on Top Performers", 85,
                       << above[i].key >>, "", <<>>, "high-performing ads", above[i].count)]

analyzeHeadlinePerformance(ads) ==
    LET topPerforming == slice0(sortByAvgDesc(extractHeadlinePatterns(ads)), TopPatterns) IN
    IF /\ Len(topPerforming) > 0
       /\ topPerforming[1].total > HeadlineCtrThreshold * topPerforming[1].count
    THEN << Suggestion("headline", "high", "Optimize Headlines Based on Top Performers", 85,
                       << topPerforming[1].key >>, "", <<>>,
                       "high-performing ads", topPerforming[1].count) >>
    ELSE <<>>

RECURSIVE toneMap(_, _)
toneMap(ads, m) ==
    IF ads = <<>> THEN m
    ELSE LET ad == Head(ads) IN
         toneMap(Tail(ads),
                 IF ad.tone # "" /\ HasCtr(ad)
                 THEN mapAdd(m, ad.tone, ad.performance.ctr)
                 ELSE m)

analyzeTonePerformance(ads) ==
    LET ranked == sortByAvgDesc(SelectSeq(toneMap(ads, <<>>),
                                          LAMBDA e : e.count >= MinGroupCount)) IN
    IF Len(ranked) > 0 /\ ranked[1].total > ToneCtrThreshold * ranked[1].count
    THEN << Suggestion("tone", "medium", "Tone Performs Best", 75,
                       <<>>, ranked[1].key, <<>>, "ads analyzed", ranked[1].count) >>
    ELSE <<>>


\* the size of the top slice rounded down, with a floor of 1
topSliceSizeRoundedDown(n) ==
    IF (n * 30) \div 100 < 1 THEN 1 ELSE (n * 30) \div 100

\* Math.ceil(n * 0.3)
TopSlicePercent == 30
topSliceSize(n) == (n * TopSlicePercent + 99) \div 100

\* Math.round(sum / n), n > 0
roundedMean(sum, n) == (2 * sum + n) \div (2 * n)

\* data.sort((a, b) => b.ctr - a.ctr): stable
RECURSIVE insertByCtr(_, _)
insertByCtr(sorted, x) ==
    IF sorted = <<>> THEN <<x>>
    ELSE IF Head(sorted).ctr < x.ctr THEN <<x>> \o sorted
    ELSE <<Head(sorted)>> \o insertByCtr(Tail(sorted), x)

RECURSIVE sortByCtrFrom(_, _)
sortByCtrFrom(rest, sorted) ==
    IF rest = <<>> THEN sorted
    ELSE sortByCtrFrom(Tail(rest), insertByCtr(sorted, Head(rest)))

RECURSIVE sumOf(_)
sumOf(ns) == IF ns = <<>> THEN 0 ELSE Head(ns) + sumOf(Tail(ns))

minOf(ns) == CHOOSE x \in {ns[i] : i \in 1..Len(ns)} : \A i \in 1..Len(ns) : x <= ns[i]
maxOf(ns) == CHOOSE x \in {ns[i] : i \in 1..Len(ns)} : \A i \in 1..Len(ns) : x >= ns[i]

\* a finding whose confidence is scaled to thousandths
findOptimalLengthPerMille(data) ==
    LET sorted == sortByCtrFrom(data, <<>>)
        topPerformers == slice0(sorted, topSliceSize(Len(sorted)))
        lengths == [i \in 1..Len(topPerformers) |-> topPerformers[i].headlineLength]
    IN  [optimal |-> roundedMean(sumOf(lengths), Len(lengths)),
         minLength |-> minOf(lengths),
         maxLength |-> maxOf(lengths),
         confidence |-> 750]

\* findOptimalLength(data, 'headlineLength'); confidence is 0.75, in hundredths
findOptimalLength(data) ==
    LET sorted == sortByCtrFrom(data, <<>>)
        topPerformers == slice0(sorted, topSliceSize(Len(sorted)))
        lengths == [i \in 1..Len(topPerformers) |-> topPerformers[i].headlineLength]
    IN  [optimal |-> roundedMean(sumOf(lengths), Len(lengths)),
         minLength |-> minOf(lengths),
         maxLength |-> maxOf(lengths),
         confidence |-> 75]

\* the finding's confidence must exceed 0.7, in hundredths
LengthConfidenceFloor == 70

\* a length analyzer that counts the ads whose click-through rate is zero
analyzeLengthPerformanceCountingZero(ads) ==
    LET withPerf == SelectSeq(ads, HasPerformance)
        mapped == [i \in 1..Len(withPerf) |->
                     [headlineLength |-> Len(withPerf[i].headline),
                      descLength |-> Len(withPerf[i].description),
                      ctr |-> IF HasCtr(withPerf[i]) THEN withPerf[i].performance.ctr ELSE 0]]
        lengthData == SelectSeq(mapped, LAMBDA d : d.ctr >= 0)
    IN  IF Len(lengthData) >= MinLengthSamples
        THEN LET opt == findOptimalLength(lengthData) IN
             IF opt.confidence > LengthConfidenceFloor
             THEN << Suggestion("headline", "medium", "Optimize Headline Length", opt.confidence,
                                <<>>, "", << opt.minLength, opt.maxLength, opt.optimal >>,
                                "ads analyzed", Len(lengthData)) >>
             ELSE <<>>
        ELSE <<>>

analyzeLengthPerformance(ads) ==
    LET withPerf == SelectSeq(ads, HasPerformance)
        mapped == [i \in 1..Len(withPerf) |->
                     [headlineLength |-> Len(withPerf[i].headline),
                      descLength |-> Len(withPerf[i].description),
                      ctr |-> IF HasCtr(withPerf[i]) THEN withPerf[i].performance.ctr ELSE 0]]
        lengthData == SelectSeq(mapped, LAMBDA d : d.ctr > 0)
    IN  IF Len(lengthData) >= MinLengthSamples
        THEN LET opt == findOptimalLength(lengthData) IN
             IF opt.confidence > LengthConfidenceFloor
             THEN << Suggestion("headline", "medium", "Optimize Headline Length", opt.confidence,
                                <<>>, "", << opt.minLength, opt.maxLength, opt.optimal >>,
                                "ads analyzed", Len(lengthData)) >>
             ELSE <<>>
        ELSE <<>>

\* wordCounts.set(word, (wordCounts.get(word) || 0) + 1)
countWord(m, word) ==
    IF \E i \in 1..Len(m) : m[i].word = word
    THEN [i \in 1..Len(m) |->
            IF m[i].word = word THEN [word |-> word, count |-> m[i].count + 1] ELSE m[i]]
    ELSE Append(m, [word |-> word, count |-> 1])

RECURSIVE countWords(_, _)
countWords(words, m) ==
    IF words = <<>> THEN m ELSE countWords(Tail(words), countWord(m, Head(words)))

\* the words of one ad that pass the length filter alone, stop words kept
adWordsKeepingStopWords(ad) ==
    SelectSeq(splitWhitespace(toLowerCase(ad.headline \o <<" ">> \o ad.description)),
              LAMBDA word : Len(word) > MinWordLength)

\* the words of one ad that pass the length and stop-word filter
adWords(ad) ==
    SelectSeq(splitWhitespace(toLowerCase(ad.headline \o <<" ">> \o ad.description)),
              LAMBDA word : Len(word) > MinWordLength /\ word \notin StopWords)

RECURSIVE wordCountsOf(_, _)
wordCountsOf(ads, m) ==
    IF ads = <<>> THEN m
    ELSE wordCountsOf(Tail(ads), countWords(adWords(Head(ads)), m))

\* sort((a, b) => b[1] - a[1]): stable
RECURSIVE insertByCount(_, _)
insertByCount(sorted, x) ==
    IF sorted = <<>> THEN <<x>>
    ELSE IF Head(sorted).count < x.count THEN <<x>> \o sorted
    ELSE <<Head(sorted)>> \o insertByCount(Tail(sorted), x)

RECURSIVE sortByCountFrom(_, _)
sortByCountFrom(rest, sorted) ==
    IF rest = <<>> THEN sorted
    ELSE sortByCountFrom(Tail(rest), insertByCount(sorted, Head(rest)))

extractCommonWords(ads) ==
    LET frequent == SelectSeq(wordCountsOf(ads, <<>>), LAMBDA e : e.count >= MinWordCount)
        top == slice0(sortByCountFrom(frequent, <<>>), MaxCommonWords)
    IN  [i \in 1..Len(top) |-> top[i].word]

\* ad.performance && ad.performance.ctr > 0.025
IsHighPerforming(ad) ==
    /\ HasPerformance(ad)
    /\ ad.performance.kind = "object"
    /\ ad.performance.hasCtr
    /\ ad.performance.ctr > KeywordCtrThreshold

\* a keyword analyzer that takes every high-performing ad into its sample
analyzeKeywordPerformanceUnsliced(ads) ==
    LET highPerformingAds == SelectSeq(ads, IsHighPerforming) IN
    IF Len(highPerformingAds) >= MinKeywordSample
    THEN LET commonWords == extractCommonWords(highPerformingAds) IN
         IF Len(commonWords) > 0
         THEN << Suggestion("keywords", "medium", "High-Impact Keywords Identified", 70,
                            slice0(commonWords, NamedWords), "", <<>>,
                            "top-performing ads", Len(highPerformingAds)) >>
         ELSE <<>>
    ELSE <<>>

analyzeKeywordPerformance(ads) ==
    LET highPerformingAds == slice0(SelectSeq(ads, IsHighPerforming), MaxKeywordSample) IN
    IF Len(highPerformingAds) >= MinKeywordSample
    THEN LET commonWords == extractCommonWords(highPerformingAds) IN
         IF Len(commonWords) > 0
         THEN << Suggestion("keywords", "medium", "High-Impact Keywords Identified", 70,
                            slice0(commonWords, NamedWords), "", <<>>,
                            "top-performing ads", Len(highPerformingAds)) >>
         ELSE <<>>
    ELSE <<>>

\* the volume analyzer with a confidence above the medium suggestions'
analyzeVolumePatternsConfident(ads, today) ==
    IF Len(SelectSeq(ads, LAMBDA ad : today - ad.createdAt <= RecentWindowDays)) < MinRecentAds
    THEN << Suggestion("description", "low", "Generate More Ad Variations", 80,
                       <<>>, "", <<>>, "Statistical significance requirements", 0) >>
    ELSE <<>>

\* the volume analyzer asking for one recent ad fewer
analyzeVolumePatternsFour(ads, today) ==
    IF Len(SelectSeq(ads, LAMBDA ad : today - ad.createdAt <= RecentWindowDays)) < MinRecentAds - 1
    THEN << Suggestion("description", "low", "Generate More Ad Variations", 60,
                       <<>>, "", <<>>, "Statistical significance requirements", 0) >>
    ELSE <<>>

\* the recency test with the boundary day left out
IsRecentStrict(ad, today) == today - ad.createdAt < RecentWindowDays

\* daysSinceCreated <= 30
IsRecent(ad, today) == today - ad.createdAt <= RecentWindowDays

analyzeVolumePatterns(ads, today) ==
    LET recentAds == SelectSeq(ads, LAMBDA ad : IsRecent(ad, today)) IN
    IF Len(recentAds) < MinRecentAds
    THEN << Suggestion("description", "low", "Generate More Ad Variations", 60,
                       <<>>, "", <<>>, "Statistical significance requirements", 0) >>
    ELSE <<>>

getBasicSuggestions ==
    << Suggestion("headline", "medium", "Test Different Headline Approaches", 65,
                  <<>>, "", <<>>, "Industry best practices", 0),
       Suggestion("tone", "medium", "Experiment with Tone Variations", 70,
                  <<>>, "", <<>>, "Marketing research", 0),
       Suggestion("description", "low", "Include Clear Call-to-Actions", 75,
                  <<>>, "", <<>>, "Advertising best practices", 0) >>

\* the comparator with the confidences subtracted the other way round
rankBeforeAscending(a, b) ==
    IF a.priority = "high" /\ b.priority # "high" THEN TRUE
    ELSE IF b.priority = "high" /\ a.priority # "high" THEN FALSE
    ELSE a.confidence - b.confidence < 0

\* the comparator of the final sort is negative: a goes before b
rankBefore(a, b) ==
    IF a.priority = "high" /\ b.priority # "high" THEN TRUE
    ELSE IF b.priority = "high" /\ a.priority # "high" THEN FALSE
    ELSE b.confidence - a.confidence < 0

\* an insertion that puts a suggestion before the ones it compares equal to
RECURSIVE insertByRankUnstable(_, _)
insertByRankUnstable(sorted, x) ==
    IF sorted = <<>> THEN <<x>>
    ELSE IF ~rankBefore(Head(sorted), x) THEN <<x>> \o sorted
    ELSE <<Head(sorted)>> \o insertByRankUnstable(Tail(sorted), x)

RECURSIVE insertByRank(_, _)
insertByRank(sorted, x) ==
    IF sorted = <<>> THEN <<x>>
    ELSE IF rankBefore(x, Head(sorted)) THEN <<x>> \o sorted
    ELSE <<Head(sorted)>> \o insertByRank(Tail(sorted), x)

RECURSIVE rankFrom(_, _)
rankFrom(rest, sorted) ==
    IF rest = <<>> THEN sorted
    ELSE rankFrom(Tail(rest), insertByRank(sorted, Head(rest)))

\* suggestions.sort(...)
rank(suggestions) == rankFrom(suggestions, <<>>)

\* a collection that hands the volume analyzer the performance-bearing ads only
collectSuggestionsFiltered(ads, today) ==
    LET performanceAds == SelectSeq(ads, IsPerformanceAd) IN
    (IF Len(performanceAds) > 0
     THEN analyzeHeadlinePerformance(performanceAds)
          \o analyzeTonePerformance(performanceAds)
          \o analyzeLengthPerformance(performanceAds)
          \o analyzeKeywordPerformance(performanceAds)
     ELSE <<>>)
    \o analyzeVolumePatterns(performanceAds, today)

\* the suggestions before the final sort, for a list of at least 3 ads
collectSuggestions(ads, today) ==
    LET performanceAds == SelectSeq(ads, IsPerformanceAd) IN
    (IF Len(performanceAds) > 0
     THEN analyzeHeadlinePerformance(performanceAds)
          \o analyzeTonePerformance(performanceAds)
          \o analyzeLengthPerformance(performanceAds)
          \o analyzeKeywordPerformance(performanceAds)
     ELSE <<>>)
    \o analyzeVolumePatterns(ads, today)

\* the fallback list passed through the final sort as well
getOptimizationSuggestionsAllRanked(ads, today) ==
    rank(IF Len(ads) < MinAdsForAnalysis THEN getBasicSuggestions
         ELSE collectSuggestions(ads, today))

\* AdOptimizer.getOptimizationSuggestions, given the list storage.getGeneratedAds returned
getOptimizationSuggestions(ads, today) ==
    IF Len(ads) < MinAdsForAnalysis
    THEN getBasicSuggestions
    ELSE rank(collectSuggestions(ads, today))


-----------------------------------------------------------------------------
(* The texts the model draws ad copy from *)

HSaveNow == <<"S", "a", "v", "e", " ", "B", "i", "g", " ", "T", "o", "d", "a", "y", " ", "N", "o", "w">>
HSaveOnly == <<"S", "a", "v", "e", " ", "B", "i", "g", " ", "T", "o", "d", "a", "y">>
HFree == <<"F", "r", "e", "e", " ", "T", "r", "i", "a", "l">>
HSaveToday == <<"S", "a", "v", "e", " ", "T", "o", "d", "a", "y">>
HGapNow == <<"G", "o", " ", " ", "U", "p", " ", "N", "o", "w">>
HGapFar == <<"G", "o", " ", " ", "U", "p", " ", "F", "a", "r">>
HBigSale == <<"B", "i", "g", " ", "B", "i", "g", " ", "S", "a", "l", "e">>
HDeals == <<"D", "e", "a", "l", "s", " ", "D", "e", "a", "l", "s", " ", "D", "e", "a", "l", "s">>
HGoUp == <<"G", "o", " ", "U", "p">>
DWith == <<"f", "r", "e", "e", " ", "w", "i", "t", "h", " ", "w", "i", "t", "h">>
DFreeWith == <<"F", "r", "e", "e", " ", " ", "w", "i", "t", "h", " ", "w", "i", "t", "h", " ", "w", "i", "t", "h">>
DSale == <<"s", "a", "l", "e", " ", "n", "o", "w", " ", "n", "o", "w">>
DExtra == <<"d", "e", "a", "l", "s", " ", "e", "x", "t", "r", "a", " ", "e", "x", "t", "r", "a">>
DToIt == <<"t", "o", " ", "i", "t">>
DJoin == <<"J", "o", "i", "n", " ", "u", "s", " ", "t", "o", "d", "a", "y">>

\* ad.performance: undefined or null, an object without ctr, an object with ctr
NoPerformance == [kind |-> "null", hasCtr |-> FALSE, ctr |-> 0]
EmptyPerformance == [kind |-> "object", hasCtr |-> FALSE, ctr |-> 0]
PerformanceOf(c) == [kind |-> "object", hasCtr |-> TRUE, ctr |-> c]
\* a performance value that is truthy but no object, as PUT /api/ads/:id accepts it
ScalarPerformance == [kind |-> "scalar", hasCtr |-> FALSE, ctr |-> 0]

-----------------------------------------------------------------------------
(* MemStorage *)

DemoEmail == "demo@example.com"
SecondEmail == "second@example.com"

DemoUser == [id |-> DemoUserId, email |-> DemoEmail, googleAccessToken |-> "null"]

\* the fields of a settings record; "unset" is undefined, "absent" a field a caller did not supply
DemoSettings ==
    [id |-> 1, userId |-> DemoUserId, businessLogo |-> "null", openaiApiKey |-> "null",
     autoSaveAds |-> "true"]

InitialUserId == 2
InitialUserSettingsId == 2
InitialCampaignId == 1
InitialGeneratedAdId == 1
InitialApiUsageId == 1

\* this.users.get(id) is defined
hasUser(us, id) == \E i \in 1..Len(us) : us[i].id = id

\* this.users.get(id)
getUser(us, id) == us[CHOOSE i \in 1..Len(us) : us[i].id = id]

\* getUserSettings(userId) is defined
hasUserSettings(ss, userId) == \E i \in 1..Len(ss) : ss[i].userId = userId

\* getUserSettings(userId): the first record of the user in insertion order
getUserSettings(ss, userId) ==
    ss[CHOOSE i \in 1..Len(ss) :
          /\ ss[i].userId = userId
          /\ \A j \in 1..(i - 1) : ss[j].userId # userId]

SettingsFields == {"businessLogo", "openaiApiKey", "autoSaveAds"}

\* an upsert that inserts a record whether or not the user has one
upsertUserSettingsAppending(ss, nextId, settings) ==
    Append(ss, [f \in DOMAIN settings \cup {"id"} |->
                   IF f = "id" THEN nextId
                   ELSE IF f \in SettingsFields /\ settings[f] = "absent" THEN "unset"
                   ELSE settings[f]])

\* upsertUserSettings(settings): the store's records after the call
upsertUserSettings(ss, nextId, settings) ==
    IF hasUserSettings(ss, settings.userId)
    THEN LET existing == getUserSettings(ss, settings.userId)
             updated == [f \in DOMAIN existing |->
                            IF f \in SettingsFields /\ settings[f] # "absent"
                            THEN settings[f] ELSE existing[f]]
         IN  [i \in 1..Len(ss) |-> IF ss[i].id = existing.id THEN updated ELSE ss[i]]
    ELSE Append(ss, [f \in DOMAIN settings \cup {"id"} |->
                        IF f = "id" THEN nextId
                        ELSE IF f \in SettingsFields /\ settings[f] = "absent" THEN "unset"
                        ELSE settings[f]])

\* a read that does not see the ad written last
getGeneratedAdsStale(ads, userId) ==
    SelectSeq(SubSeq(ads, 1, Len(ads) - 1), LAMBDA ad : ad.userId = userId)

\* getGeneratedAds(userId): the user's ads in the Map's iteration order
getGeneratedAds(ads, userId) == SelectSeq(ads, LAMBDA ad : ad.userId = userId)

\* getGeneratedAds(userId, campaignId); campaignId 0 stands for the values the test
\* `campaignId && ...` takes for absent: undefined, NaN and 0
getGeneratedAdsOfCampaign(ads, userId, campaignId) ==
    SelectSeq(ads, LAMBDA ad : /\ ad.userId = userId
                               /\ ~(campaignId # 0 /\ ad.campaignId # campaignId))

\* createGeneratedAd(insertAd): the Map after the call
createGeneratedAd(ads, nextId, insertAd, today) ==
    Append(ads, [key |-> nextId,
                 id |-> nextId, userId |-> insertAd.userId, campaignId |-> insertAd.campaignId,
                 headline |-> insertAd.headline, description |-> insertAd.description,
                 tone |-> insertAd.tone, status |-> insertAd.status,
                 performance |-> NoPerformance, createdAt |-> today])

\* this.generatedAds.get(id) is defined
hasGeneratedAd(ads, id) == \E i \in 1..Len(ads) : ads[i].key = id

\* updateGeneratedAd(id, updateData): {...ad, ...updateData} set under the same key
updateGeneratedAd(ads, id, updateData) ==
    [i \in 1..Len(ads) |->
        IF ads[i].key = id
        THEN [f \in DOMAIN ads[i] |-> IF f \in DOMAIN updateData THEN updateData[f] ELSE ads[i][f]]
        ELSE ads[i]]

\* a delete that takes the ads created after the given one with it
deleteGeneratedAdAndAfter(ads, id) == SelectSeq(ads, LAMBDA ad : ad.key < id)

\* deleteGeneratedAd(id): the Map after this.generatedAds.delete(id)
deleteGeneratedAd(ads, id) == SelectSeq(ads, LAMBDA ad : ad.key # id)

\* createApiUsage(insertUsage): the Map after the call
createApiUsage(usage, nextId, userId) ==
    Append(usage, [id |-> nextId, userId |-> userId, service |-> "openai",
                   operation |-> "ad_generation"])


-----------------------------------------------------------------------------
(* authenticateUser *)

Digits == {"0", "1", "2", "3", "4", "5", "6", "7", "8", "9"}

DigitValue(c) ==
    CASE c = "0" -> 0 [] c = "1" -> 1 [] c = "2" -> 2 [] c = "3" -> 3 [] c = "4" -> 4
      [] c = "5" -> 5 [] c = "6" -> 6 [] c = "7" -> 7 [] c = "8" -> 8 [] c = "9" -> 9

RECURSIVE digitsFrom(_, _, _)
digitsFrom(s, acc, seen) ==
    IF s = <<>> \/ Head(s) \notin Digits THEN [nan |-> ~seen, value |-> acc]
    ELSE digitsFrom(Tail(s), acc * 10 + DigitValue(Head(s)), TRUE)

RECURSIVE skipWhitespace(_)
skipWhitespace(s) ==
    IF s # <<>> /\ Head(s) \in Whitespace THEN skipWhitespace(Tail(s)) ELSE s

\* parseInt(s): leading whitespace, an optional sign, then digits; NaN without a digit
parseInt(s) ==
    LET t == skipWhitespace(s) IN
    IF t # <<>> /\ Head(t) = "-"
    THEN LET r == digitsFrom(Tail(t), 0, FALSE) IN [nan |-> r.nan, value |-> 0 - r.value]
    ELSE IF t # <<>> /\ Head(t) = "+" THEN digitsFrom(Tail(t), 0, FALSE)
    ELSE digitsFrom(t, 0, FALSE)

\* the x-user-id headers requests carry; <<>> is a request without the header
NoHeader == <<>>
Headers == {NoHeader, <<"2">>, <<"2", "x">>, <<"a">>}

\* a middleware that rejects an id it cannot resolve instead of falling back
authenticateUserStrict(us, header) ==
    IF header = <<>>
    THEN IF hasUser(us, DemoUserId)
         THEN [ok |-> TRUE, status |-> 200, error |-> "", userId |-> DemoUserId]
         ELSE [ok |-> FALSE, status |-> 401, error |-> "Authentication required", userId |-> 0]
    ELSE LET id == parseInt(header) IN
         IF id.nan \/ ~hasUser(us, id.value)
         THEN [ok |-> FALSE, status |-> 401, error |-> "Invalid user", userId |-> 0]
         ELSE [ok |-> TRUE, status |-> 200, error |-> "", userId |-> id.value]

\* authenticateUser: req.user of the request that proceeds, or the rejection
authenticateUser(us, header) ==
    IF header = <<>>
    THEN IF hasUser(us, DemoUserId)
         THEN [ok |-> TRUE, status |-> 200, error |-> "", userId |-> DemoUserId]
         ELSE [ok |-> FALSE, status |-> 401, error |-> "Authentication required", userId |-> 0]
    ELSE LET id == parseInt(header) IN
         IF id.nan \/ ~hasUser(us, id.value)
         THEN IF hasUser(us, DemoUserId)
              THEN [ok |-> TRUE, status |-> 200, error |-> "", userId |-> DemoUserId]
              ELSE [ok |-> FALSE, status |-> 401, error |-> "Invalid user", userId |-> 0]
         ELSE [ok |-> TRUE, status |-> 200, error |-> "", userId |-> id.value]

-----------------------------------------------------------------------------
(* Responses.  fault names the storage call that rejected during the       *)
(* request ("none" when every call resolved); at is the clock value the    *)
(* request was served at; prior is history: the list of the response       *)
(* before, when that was a list served to the same user at the same clock  *)
(* value (no other request, hence no store write, lies between the two).   *)

NoPrior == [has |-> FALSE, list |-> <<>>]

Response(route, status, userId, error, hasList, suggestions, fault, at) ==
    [route |-> route, status |-> status, userId |-> userId, error |-> error,
     hasList |-> hasList, suggestions |-> suggestions, fault |-> fault, at |-> at,
     prior |-> NoPrior]

NoResponse == Response("", 0, 0, "", FALSE, <<>>, "none", 0)

SuggestionsRoute == "GET /api/optimization/suggestions"
GenerateRoute == "POST /api/ads/generate"
PutAdRoute == "PUT /api/ads/:id"
DeleteAdRoute == "DELETE /api/ads/:id"
PutSettingsRoute == "PUT /api/settings"
DemoLoginRoute == "POST /api/auth/demo-login"

\* the storage calls of a suggestion request that may reject
Faults == {"none", "getUser", "getGeneratedAds"}

\* a catch block that degrades to the fallback list instead of failing
suggestionsFailureDegrading(userId, fault, today) ==
    Response(SuggestionsRoute, 200, userId, "", TRUE, getBasicSuggestions, fault, today)

\* the catch block of the suggestions route
suggestionsFailure(userId, fault, today) ==
    Response(SuggestionsRoute, 500, userId, "Failed to fetch optimization suggestions",
             FALSE, <<>>, fault, today)

\* the response of GET /api/optimization/suggestions, authentication included
suggestionsResponse(us, ads, header, fault, today) ==
    IF fault = "getUser"
    THEN Response(SuggestionsRoute, 500, 0, "Authentication error", FALSE, <<>>, fault, today)
    ELSE LET auth == authenticateUser(us, header) IN
         IF ~auth.ok
         THEN Response(SuggestionsRoute, auth.status, 0, auth.error, FALSE, <<>>, fault, today)
         ELSE IF fault = "getGeneratedAds"
         THEN suggestionsFailure(auth.userId, fault, today)
         ELSE Response(SuggestionsRoute, 200, auth.userId, "", TRUE,
                       getOptimizationSuggestions(getGeneratedAds(ads, auth.userId), today),
                       fault, today)

\* no generation request is in flight
NoSaving == [status |-> "none", userId |-> 0, tone |-> "", variants |-> <<>>]

\* no suggestion request is in flight
NoLoaded == [status |-> "none", userId |-> 0, ads |-> <<>>]

-----------------------------------------------------------------------------
(* The requests *)

Init ==
    /\ users = << DemoUser >>
    /\ userSettings = << DemoSettings >>
    /\ campaigns = <<>>
    /\ generatedAds = <<>>
    /\ apiUsage = <<>>
    /\ currentUserId = InitialUserId
    /\ currentUserSettingsId = InitialUserSettingsId
    /\ currentCampaignId = InitialCampaignId
    /\ currentGeneratedAdId = InitialGeneratedAdId
    /\ currentApiUsageId = InitialApiUsageId
    /\ now = 0
    /\ response = NoResponse
    /\ loaded = NoLoaded
    /\ saving = NoSaving

\* the history field of a response, given the response before it
priorOf(before, served) ==
    IF /\ before.route = SuggestionsRoute /\ before.hasList /\ served.hasList
       /\ before.userId = served.userId /\ before.at = served.at
    THEN [has |-> TRUE, list |-> before.suggestions]
    ELSE NoPrior

\* the response a suggestion request leaves, its history field filled in
served(header, fault) ==
    LET r == suggestionsResponse(users, generatedAds, header, fault, now) IN
    [r EXCEPT !.prior = priorOf(response, r)]

\* a request whose engine sorts the stored ads in place, by click-through rate
GetSuggestionsSortingStore(header, fault) ==
    /\ response' = served(header, fault)
    /\ generatedAds' =
          LET sorted == sortByCtrFrom(
                          [i \in 1..Len(generatedAds) |->
                              [ad |-> generatedAds[i], ctr |-> generatedAds[i].performance.ctr]],
                          <<>>)
          IN  [i \in 1..Len(sorted) |-> sorted[i].ad]
    /\ UNCHANGED << users, userSettings, campaigns, apiUsage, currentUserId,
                    currentUserSettingsId, currentCampaignId, currentGeneratedAdId,
                    currentApiUsageId, now, loaded, saving >>

\* GET /api/optimization/suggestions
GetSuggestions(header, fault) ==
    /\ response' = served(header, fault)
    /\ UNCHANGED << storeVars, now, loaded, saving >>


\* a response that carries no suggestion list
Plain(route, status, userId, error) ==
    Response(route, status, userId, error, FALSE, <<>>, "none", now)

Emails == {DemoEmail, SecondEmail}

\* POST /api/auth/demo-login
DemoLogin(email) ==
    IF \E i \in 1..Len(users) : users[i].email = email
    THEN /\ response' = Plain(DemoLoginRoute, 200,
                              users[CHOOSE i \in 1..Len(users) : users[i].email = email].id, "")
         /\ UNCHANGED << storeVars, now, loaded, saving >>
    ELSE /\ Len(users) < MaxUsers
         /\ users' = Append(users, [id |-> currentUserId, email |-> email,
                                    googleAccessToken |-> "null"])
         /\ currentUserId' = currentUserId + 1
         /\ userSettings' = upsertUserSettings(userSettings, currentUserSettingsId,
                                [userId |-> currentUserId, businessLogo |-> "null",
                                 openaiApiKey |-> "null", autoSaveAds |-> "true"])
         /\ currentUserSettingsId' = currentUserSettingsId + 1
         /\ response' = Plain(DemoLoginRoute, 200, currentUserId, "")
         /\ UNCHANGED << campaigns, generatedAds, apiUsage, currentCampaignId,
                         currentGeneratedAdId, currentApiUsageId, now, loaded, saving >>

\* the bodies of PUT /api/settings the model sends
SettingsBodies ==
    { [businessLogo |-> "absent", openaiApiKey |-> "sk-key", autoSaveAds |-> "absent"] }

\* PUT /api/settings
PutSettings(header, body) ==
    LET auth == authenticateUser(users, header) IN
    IF ~auth.ok
    THEN /\ response' = Plain(PutSettingsRoute, auth.status, 0, auth.error)
         /\ UNCHANGED << storeVars, now, loaded, saving >>
    ELSE /\ userSettings' = upsertUserSettings(userSettings, currentUserSettingsId,
                                [userId |-> auth.userId, businessLogo |-> body.businessLogo,
                                 openaiApiKey |-> body.openaiApiKey,
                                 autoSaveAds |-> body.autoSaveAds])
         /\ currentUserSettingsId' =
                IF hasUserSettings(userSettings, auth.userId)
                THEN currentUserSettingsId ELSE currentUserSettingsId + 1
         /\ response' = Plain(PutSettingsRoute, 200, auth.userId, "")
         /\ UNCHANGED << users, campaigns, generatedAds, apiUsage, currentUserId,
                         currentCampaignId, currentGeneratedAdId, currentApiUsageId, now, loaded, saving >>

\* the variants the model call returns: the first k of these
GenVariants ==
    << [headline |-> HSaveNow, description |-> DWith],
       [headline |-> HSaveOnly, description |-> DSale],
       [headline |-> HFree, description |-> DJoin] >>

RequestTones == {"Professional"}

\* for (const ad of result.ads) await storage.createGeneratedAd({...})
RECURSIVE saveAds(_, _, _, _, _, _)
saveAds(ads, nextId, variants, userId, tone, today) ==
    IF variants = <<>> THEN ads
    ELSE saveAds(createGeneratedAd(ads, nextId,
                                   [userId |-> userId, campaignId |-> 0,
                                    headline |-> Head(variants).headline,
                                    description |-> Head(variants).description,
                                    tone |-> tone, status |-> "draft"], today),
                 nextId + 1, Tail(variants), userId, tone, today)

\* a test that takes every value but false for set
TruthyUnlessFalse(v) == v \notin {"unset", "false", ""}

\* a settings value is truthy
Truthy(v) == v \notin {"null", "unset", "false", ""}

\* POST /api/ads/generate; returned = 0 is a model call that throws, k > 0 one that
\* returns k variants.  process.env.OPENAI_API_KEY is not set.
GenerateAds(header, tone, returned) ==
    LET auth == authenticateUser(users, header)
        u == auth.userId
        hasSettings == hasUserSettings(userSettings, u)
        settings == getUserSettings(userSettings, u)
    IN
    /\ currentApiUsageId <= MaxApiUsage
    /\ currentGeneratedAdId + returned - 1 <= MaxAdId
    /\ IF ~auth.ok
       THEN /\ response' = Plain(GenerateRoute, auth.status, 0, auth.error)
            /\ UNCHANGED << storeVars, now, loaded, saving >>
       ELSE IF ~hasSettings \/ ~Truthy(settings.openaiApiKey)
       THEN /\ response' = Plain(GenerateRoute, 400, u, "OpenAI API key not configured")
            /\ UNCHANGED << storeVars, now, loaded, saving >>
       ELSE IF returned = 0
       THEN /\ response' = Plain(GenerateRoute, 500, u, "Failed to generate ad copy")
            /\ UNCHANGED << storeVars, now, loaded, saving >>
       ELSE /\ apiUsage' = createApiUsage(apiUsage, currentApiUsageId, u)
            /\ currentApiUsageId' = currentApiUsageId + 1
            /\ generatedAds' =
                  IF Truthy(settings.autoSaveAds)
                  THEN saveAds(generatedAds, currentGeneratedAdId,
                               SubSeq(GenVariants, 1, returned), u, tone, now)
                  ELSE generatedAds
            /\ currentGeneratedAdId' =
                  IF Truthy(settings.autoSaveAds)
                  THEN currentGeneratedAdId + returned ELSE currentGeneratedAdId
            /\ response' = Plain(GenerateRoute, 200, u, "")
            /\ UNCHANGED << users, userSettings, campaigns, currentUserId,
                            currentUserSettingsId, currentCampaignId, now, loaded, saving >>

\* the bodies of PUT /api/ads/:id the model sends: performance data attached to an ad
AdBodies == { [performance |-> PerformanceOf(30)] }

AdIds == 1..MaxAdId

\* an update that assigns the new fields to the stored object itself, which a list
\* loaded earlier shares with the store
PutAdInPlace(header, id, body) ==
    LET auth == authenticateUser(users, header) IN
    IF ~auth.ok
    THEN /\ response' = Plain(PutAdRoute, auth.status, 0, auth.error)
         /\ UNCHANGED << storeVars, now, loaded, saving >>
    ELSE IF ~hasGeneratedAd(generatedAds, id)
    THEN /\ response' = Plain(PutAdRoute, 404, auth.userId, "Ad not found")
         /\ UNCHANGED << storeVars, now, loaded, saving >>
    ELSE /\ generatedAds' = updateGeneratedAd(generatedAds, id, body)
         /\ loaded' = [loaded EXCEPT !.ads = updateGeneratedAd(loaded.ads, id, body)]
         /\ response' = Plain(PutAdRoute, 200, auth.userId, "")
         /\ UNCHANGED << users, userSettings, campaigns, apiUsage, currentUserId,
                         currentUserSettingsId, currentCampaignId, currentGeneratedAdId,
                         currentApiUsageId, now, saving >>

\* PUT /api/ads/:id
PutAd(header, id, body) ==
    LET auth == authenticateUser(users, header) IN
    IF ~auth.ok
    THEN /\ response' = Plain(PutAdRoute, auth.status, 0, auth.error)
         /\ UNCHANGED << storeVars, now, loaded, saving >>
    ELSE IF ~hasGeneratedAd(generatedAds, id)
    THEN /\ response' = Plain(PutAdRoute, 404, auth.userId, "Ad not found")
         /\ UNCHANGED << storeVars, now, loaded, saving >>
    ELSE /\ generatedAds' = updateGeneratedAd(generatedAds, id, body)
         /\ response' = Plain(PutAdRoute, 200, auth.userId, "")
         /\ UNCHANGED << users, userSettings, campaigns, apiUsage, currentUserId,
                         currentUserSettingsId, currentCampaignId, currentGeneratedAdId,
                         currentApiUsageId, now, loaded, saving >>

\* DELETE /api/ads/:id
DeleteAd(header, id) ==
    LET auth == authenticateUser(users, header) IN
    IF ~auth.ok
    THEN /\ response' = Plain(DeleteAdRoute, auth.status, 0, auth.error)
         /\ UNCHANGED << storeVars, now, loaded, saving >>
    ELSE IF ~hasGeneratedAd(generatedAds, id)
    THEN /\ response' = Plain(DeleteAdRoute, 404, auth.userId, "Ad not found")
         /\ UNCHANGED << storeVars, now, loaded, saving >>
    ELSE /\ generatedAds' = deleteGeneratedAd(generatedAds, id)
         /\ response' = Plain(DeleteAdRoute, 200, auth.userId, "")
         /\ UNCHANGED << users, userSettings, campaigns, apiUsage, currentUserId,
                         currentUserSettingsId, currentCampaignId, currentGeneratedAdId,
                         currentApiUsageId, now, loaded, saving >>

\* a day passes
Tick ==
    /\ now + 1 <= MaxNow
    /\ now' = now + 1
    /\ UNCHANGED << storeVars, response, loaded, saving >>

MaxVariations == 3

Next ==
    \/ \E email \in Emails : DemoLogin(email)
    \/ \E header \in Headers, body \in SettingsBodies : PutSettings(header, body)
    \/ \E header \in Headers, tone \in RequestTones, returned \in 0..MaxVariations :
          GenerateAds(header, tone, returned)
    \/ \E header \in Headers, id \in AdIds, body \in AdBodies : PutAd(header, id, body)
    \/ \E header \in Headers, id \in AdIds : DeleteAd(header, id)
    \/ \E header \in Headers, fault \in Faults : GetSuggestions(header, fault)

Spec == Init /\ [][Next]_vars


-----------------------------------------------------------------------------
(* The engine over drawn ad lists: the store holds a list of the demo      *)
(* user's ads drawn from one of three families of ad profiles, and the     *)
(* requests are suggestion requests while the days pass.                   *)

\* ads of one headline and tone that differ in performance and age
VolumeProfiles ==
    { [headline |-> HSaveNow, description |-> DJoin, tone |-> "Professional",
       performance |-> p, createdAt |-> c] :
         p \in {NoPerformance, PerformanceOf(30)}, c \in {0, RecentWindowDays} }

\* ads that differ in headline and click-through rate
PatternProfiles ==
    { [headline |-> x[1], description |-> DToIt, tone |-> "",
       performance |-> PerformanceOf(x[2]), createdAt |-> RecentWindowDays] :
         x \in { <<HSaveNow, 0>>, <<HSaveNow, 10>>, <<HSaveNow, 20>>, <<HSaveNow, 30>>,
                 <<HSaveOnly, 30>>, <<HFree, 20>>, <<HFree, 30>> } }

\* ads that differ in their words, one of them at the keyword threshold
KeywordProfiles ==
    { [headline |-> x[1], description |-> x[2], tone |-> "Casual",
       performance |-> PerformanceOf(x[3]), createdAt |-> RecentWindowDays] :
         x \in { <<HSaveToday, DWith, 30>>, <<HSaveToday, DFreeWith, 40>>,
                 <<HBigSale, DSale, 30>>, <<HDeals, DExtra, 30>>,
                 <<HGoUp, DToIt, 30>>, <<HDeals, DExtra, 25>> } }

Families ==
    { [profiles |-> VolumeProfiles, maxLen |-> MaxEngineAds],
      [profiles |-> PatternProfiles, maxLen |-> MaxPatternAds],
      [profiles |-> KeywordProfiles, maxLen |-> MaxKeywordAds] }

\* the stored ad with the given id and profile, as createGeneratedAd and PUT leave it
EngineAd(id, profile) ==
    [key |-> id, id |-> id, userId |-> DemoUserId, campaignId |-> 0,
     headline |-> profile.headline, description |-> profile.description,
     tone |-> profile.tone, status |-> "draft",
     performance |-> profile.performance, createdAt |-> profile.createdAt]

InitEngine ==
    /\ users = << DemoUser >>
    /\ userSettings = << DemoSettings >>
    /\ campaigns = <<>>
    /\ apiUsage = <<>>
    /\ currentUserId = InitialUserId
    /\ currentUserSettingsId = InitialUserSettingsId
    /\ currentCampaignId = InitialCampaignId
    /\ currentApiUsageId = InitialApiUsageId
    /\ now = RecentWindowDays
    /\ response = NoResponse
    /\ loaded = NoLoaded
    /\ saving = NoSaving
    /\ \E f \in Families : \E n \in 0..f.maxLen : \E list \in [1..n -> f.profiles] :
          /\ generatedAds = [i \in 1..n |-> EngineAd(i, list[i])]
          /\ currentGeneratedAdId = n + 1

NextEngine ==
    \/ GetSuggestions(NoHeader, "none")
    \/ Tick

SpecEngine == InitEngine /\ [][NextEngine]_vars


-----------------------------------------------------------------------------
(* Ad generation under every auto-save setting: users log in, switch       *)
(* auto-save off and on and set an API key through PUT /api/settings, and  *)
(* request ads.                                                            *)

\* the bodies of PUT /api/settings that set an API key or the auto-save flag
AutoSaveBodies ==
    { [businessLogo |-> "absent", openaiApiKey |-> "sk-key", autoSaveAds |-> "absent"],
      [businessLogo |-> "absent", openaiApiKey |-> "absent", autoSaveAds |-> "false"],
      [businessLogo |-> "absent", openaiApiKey |-> "absent", autoSaveAds |-> "null"],
      [businessLogo |-> "absent", openaiApiKey |-> "absent", autoSaveAds |-> "true"] }

NextGenerate ==
    \/ \E email \in Emails : DemoLogin(email)
    \/ \E header \in Headers, body \in AutoSaveBodies : PutSettings(header, body)
    \/ \E header \in Headers, tone \in RequestTones, returned \in 0..MaxVariations :
          GenerateAds(header, tone, returned)

SpecGenerate == Init /\ [][NextGenerate]_vars


-----------------------------------------------------------------------------
(* The engine over ads whose performance signals differ: the store holds a *)
(* list of the demo user's ads drawn from one family of ad profiles, and   *)
(* the requests are suggestion requests.                                   *)

\* ads of one text whose performance is null, an object without fields, a scalar or
\* an object with a click-through rate, and one older ad without performance
MalformedProfiles ==
    { [headline |-> HSaveNow, description |-> DJoin, tone |-> "Casual",
       performance |-> x[1], createdAt |-> x[2]] :
         x \in { <<NoPerformance, RecentWindowDays>>, <<EmptyPerformance, RecentWindowDays>>,
                 <<ScalarPerformance, RecentWindowDays>>, <<PerformanceOf(30), RecentWindowDays>>,
                 <<NoPerformance, 0>> } }

\* ads that differ in headline and click-through rate, two of the headlines with a
\* double space after the first word, one rate zero and one missing
HeadlineProfiles ==
    { [headline |-> x[1], description |-> DToIt, tone |-> "",
       performance |-> x[2], createdAt |-> RecentWindowDays] :
         x \in { <<HSaveNow, PerformanceOf(30)>>, <<HSaveOnly, PerformanceOf(10)>>,
                 <<HSaveNow, PerformanceOf(0)>>, <<HSaveOnly, EmptyPerformance>>,
                 <<HGapNow, PerformanceOf(40)>>, <<HGapFar, PerformanceOf(30)>>,
                 <<HFree, PerformanceOf(50)>> } }

\* ads that differ in tone and click-through rate, one of them without a tone
ToneProfiles ==
    { [headline |-> HGoUp, description |-> DToIt, tone |-> x[1],
       performance |-> PerformanceOf(x[2]), createdAt |-> RecentWindowDays] :
         x \in { <<"Casual", 30>>, <<"Casual", 10>>, <<"Casual", 0>>,
                 <<"Professional", 20>>, <<"Professional", 30>>, <<"", 50>> } }

\* ads that differ in headline length and click-through rate, two of the rates
\* equal and one zero
LengthProfiles ==
    { [headline |-> x[1], description |-> DToIt, tone |-> "",
       performance |-> PerformanceOf(x[2]), createdAt |-> RecentWindowDays] :
         x \in { <<HGoUp, 50>>, <<HSaveNow, 50>>, <<HFree, 40>>, <<HFree, 0>> } }

SignalFamilies ==
    { [profiles |-> MalformedProfiles, maxLen |-> MaxMalformedAds],
      [profiles |-> HeadlineProfiles, maxLen |-> MaxHeadlineAds],
      [profiles |-> ToneProfiles, maxLen |-> MaxToneAds],
      [profiles |-> LengthProfiles, maxLen |-> MaxLengthAds] }

InitSignals ==
    /\ users = << DemoUser >>
    /\ userSettings = << DemoSettings >>
    /\ campaigns = <<>>
    /\ apiUsage = <<>>
    /\ currentUserId = InitialUserId
    /\ currentUserSettingsId = InitialUserSettingsId
    /\ currentCampaignId = InitialCampaignId
    /\ currentApiUsageId = InitialApiUsageId
    /\ now = MaxNow
    /\ response = NoResponse
    /\ loaded = NoLoaded
    /\ saving = NoSaving
    /\ \E f \in SignalFamilies : \E n \in 0..f.maxLen : \E list \in [1..n -> f.profiles] :
          /\ generatedAds = [i \in 1..n |-> EngineAd(i, list[i])]
          /\ currentGeneratedAdId = n + 1

NextSignals == \E header \in {NoHeader, <<"2">>} : GetSuggestions(header, "none")

SpecSignals == InitSignals /\ [][NextSignals]_vars


-----------------------------------------------------------------------------
(* The keyword analyzer's sample: the store holds a list of the demo       *)
(* user's ads, long enough for more than 10 of them to qualify, or short   *)
(* with ads at the click-through threshold.                                *)

\* two ads that qualify for the sample and share no word; the second is newer and has
\* the higher click-through rate
SampleProfiles ==
    { [headline |-> HSaveToday, description |-> DToIt, tone |-> "",
       performance |-> PerformanceOf(30), createdAt |-> RecentWindowDays],
      [headline |-> HFree, description |-> DToIt, tone |-> "",
       performance |-> PerformanceOf(40), createdAt |-> MaxNow] }

\* an ad above the threshold of 0.025 and one exactly at it
ThresholdProfiles ==
    { [headline |-> HSaveToday, description |-> DToIt, tone |-> "",
       performance |-> PerformanceOf(c), createdAt |-> RecentWindowDays] :
         c \in {30, KeywordCtrThreshold} }

\* an ad every performance analyzer counts, created lately or more than 30 days ago
FullProfiles ==
    { [headline |-> HSaveToday, description |-> DToIt, tone |-> "Casual",
       performance |-> PerformanceOf(30), createdAt |-> at] : at \in {0, MaxNow} }

SampleFamilies ==
    { [profiles |-> SampleProfiles, maxLen |-> MaxSampleAds],
      [profiles |-> ThresholdProfiles, maxLen |-> MaxThresholdAds],
      [profiles |-> FullProfiles, maxLen |-> MaxFullAds] }

InitSample ==
    /\ users = << DemoUser >>
    /\ userSettings = << DemoSettings >>
    /\ campaigns = <<>>
    /\ apiUsage = <<>>
    /\ currentUserId = InitialUserId
    /\ currentUserSettingsId = InitialUserSettingsId
    /\ currentCampaignId = InitialCampaignId
    /\ currentApiUsageId = InitialApiUsageId
    /\ now = MaxNow
    /\ response = NoResponse
    /\ loaded = NoLoaded
    /\ saving = NoSaving
    /\ \E f \in SampleFamilies : \E n \in 0..f.maxLen : \E list \in [1..n -> f.profiles] :
          /\ generatedAds = [i \in 1..n |-> EngineAd(i, list[i])]
          /\ currentGeneratedAdId = n + 1

NextSample == GetSuggestions(NoHeader, "none")

SpecSample == InitSample /\ [][NextSample]_vars


-----------------------------------------------------------------------------
(* A suggestion request in two steps.  getOptimizationSuggestions awaits   *)
(* storage.getGeneratedAds once; the handlers of other requests may run    *)
(* between the call, which builds the list, and the continuation, which    *)
(* runs the analyzers and the sort without a further await.                *)

\* the request up to the await: authentication and the call of getGeneratedAds
LoadSuggestions(header, fault) ==
    LET auth == authenticateUser(users, header) IN
    /\ loaded.status # "pending"
    /\ IF fault # "none" \/ ~auth.ok
       THEN /\ response' = served(header, fault)
            /\ loaded' = NoLoaded
       ELSE /\ loaded' = [status |-> "pending", userId |-> auth.userId,
                          ads |-> getGeneratedAds(generatedAds, auth.userId)]
            /\ UNCHANGED response
    /\ UNCHANGED << storeVars, now, saving >>

\* the continuation: the analyzers, the sort and res.json, over the list held
ComputeSuggestions ==
    /\ loaded.status = "pending"
    /\ response' =
          LET r == Response(SuggestionsRoute, 200, loaded.userId, "", TRUE,
                            getOptimizationSuggestions(loaded.ads, now), "none", now)
          IN  [r EXCEPT !.prior = priorOf(response, r)]
    /\ loaded' = [loaded EXCEPT !.status = "done"]
    /\ UNCHANGED << storeVars, now, saving >>

\* the demo user's settings after PUT /api/settings with a key
KeyedSettings == [DemoSettings EXCEPT !.openaiApiKey = "sk-key"]

\* an ad as generated, and the same ad with performance data attached
SnapshotProfiles ==
    { [headline |-> HSaveNow, description |-> DJoin, tone |-> "Casual",
       performance |-> p, createdAt |-> 0] : p \in {NoPerformance, PerformanceOf(30)} }

InitSnapshot ==
    /\ users = << DemoUser >>
    /\ userSettings = << KeyedSettings >>
    /\ campaigns = <<>>
    /\ apiUsage = <<>>
    /\ currentUserId = InitialUserId
    /\ currentUserSettingsId = InitialUserSettingsId
    /\ currentCampaignId = InitialCampaignId
    /\ currentApiUsageId = InitialApiUsageId
    /\ now = 0
    /\ response = NoResponse
    /\ loaded = NoLoaded
    /\ saving = NoSaving
    /\ \E n \in 2..MaxAdId : \E list \in [1..n -> SnapshotProfiles] :
          /\ generatedAds = [i \in 1..n |-> EngineAd(i, list[i])]
          /\ currentGeneratedAdId = n + 1

NextSnapshot ==
    \/ \E fault \in {"none", "getGeneratedAds"} : LoadSuggestions(NoHeader, fault)
    \/ ComputeSuggestions
    \/ \E tone \in RequestTones : GenerateAds(NoHeader, tone, 1)
    \/ \E id \in AdIds, body \in AdBodies : PutAd(NoHeader, id, body)
    \/ \E id \in AdIds : DeleteAd(NoHeader, id)

SpecSnapshot == InitSnapshot /\ [][NextSnapshot]_vars


-----------------------------------------------------------------------------
(* A generation request in steps.  The handler awaits storage.createApiUsage *)
(* and then storage.createGeneratedAd once per variant; the handlers of      *)
(* other requests may run at each await.  The settings object the handler    *)
(* holds is the one getUserSettings returned at its start.                   *)

\* a handler that records the usage before it calls the model
TrackGenerationCountingFailures(header, tone, throws, returned) ==
    LET auth == authenticateUser(users, header)
        u == auth.userId
        hasSettings == hasUserSettings(userSettings, u)
        settings == getUserSettings(userSettings, u)
    IN
    /\ saving.status = "none"
    /\ currentApiUsageId <= MaxApiUsage
    /\ currentGeneratedAdId + returned - 1 <= MaxAdId
    /\ IF ~auth.ok
       THEN /\ response' = Plain(GenerateRoute, auth.status, 0, auth.error)
            /\ UNCHANGED << storeVars, now, loaded, saving >>
       ELSE IF ~hasSettings \/ ~Truthy(settings.openaiApiKey)
       THEN /\ response' = Plain(GenerateRoute, 400, u, "OpenAI API key not configured")
            /\ UNCHANGED << storeVars, now, loaded, saving >>
       ELSE IF throws
       THEN /\ response' = Plain(GenerateRoute, 500, u, "Failed to generate ad copy")
            /\ apiUsage' = createApiUsage(apiUsage, currentApiUsageId, u)
            /\ currentApiUsageId' = currentApiUsageId + 1
            /\ UNCHANGED << users, userSettings, campaigns, generatedAds, currentUserId,
                            currentUserSettingsId, currentCampaignId, currentGeneratedAdId,
                            now, loaded, saving >>
       ELSE /\ apiUsage' = createApiUsage(apiUsage, currentApiUsageId, u)
            /\ currentApiUsageId' = currentApiUsageId + 1
            /\ IF Truthy(settings.autoSaveAds) /\ returned > 0
               THEN /\ saving' = [status |-> "saving", userId |-> u, tone |-> tone,
                                  variants |-> SubSeq(GenVariants, 1, returned)]
                    /\ UNCHANGED response
               ELSE /\ response' = Plain(GenerateRoute, 200, u, "")
                    /\ UNCHANGED saving
            /\ UNCHANGED << users, userSettings, campaigns, generatedAds, currentUserId,
                            currentUserSettingsId, currentCampaignId, currentGeneratedAdId,
                            now, loaded >>

\* the request up to the first createGeneratedAd: authentication, the key test, the
\* model call (which throws, or returns the first `returned` variants, none included)
\* and createApiUsage; the response, when no ad is to be saved
TrackGeneration(header, tone, throws, returned) ==
    LET auth == authenticateUser(users, header)
        u == auth.userId
        hasSettings == hasUserSettings(userSettings, u)
        settings == getUserSettings(userSettings, u)
    IN
    /\ saving.status = "none"
    /\ currentApiUsageId <= MaxApiUsage
    /\ currentGeneratedAdId + returned - 1 <= MaxAdId
    /\ IF ~auth.ok
       THEN /\ response' = Plain(GenerateRoute, auth.status, 0, auth.error)
            /\ UNCHANGED << storeVars, now, loaded, saving >>
       ELSE IF ~hasSettings \/ ~Truthy(settings.openaiApiKey)
       THEN /\ response' = Plain(GenerateRoute, 400, u, "OpenAI API key not configured")
            /\ UNCHANGED << storeVars, now, loaded, saving >>
       ELSE IF throws
       THEN /\ response' = Plain(GenerateRoute, 500, u, "Failed to generate ad copy")
            /\ UNCHANGED << storeVars, now, loaded, saving >>
       ELSE /\ apiUsage' = createApiUsage(apiUsage, currentApiUsageId, u)
            /\ currentApiUsageId' = currentApiUsageId + 1
            /\ IF Truthy(settings.autoSaveAds) /\ returned > 0
               THEN /\ saving' = [status |-> "saving", userId |-> u, tone |-> tone,
                                  variants |-> SubSeq(GenVariants, 1, returned)]
                    /\ UNCHANGED response
               ELSE /\ response' = Plain(GenerateRoute, 200, u, "")
                    /\ UNCHANGED saving
            /\ UNCHANGED << users, userSettings, campaigns, generatedAds, currentUserId,
                            currentUserSettingsId, currentCampaignId, currentGeneratedAdId,
                            now, loaded >>

\* one turn of the loop over result.ads, and res.json after the last
SaveNextAd ==
    /\ saving.status = "saving"
    /\ generatedAds' =
          createGeneratedAd(generatedAds, currentGeneratedAdId,
                            [userId |-> saving.userId, campaignId |-> 0,
                             headline |-> Head(saving.variants).headline,
                             description |-> Head(saving.variants).description,
                             tone |-> saving.tone, status |-> "draft"], now)
    /\ currentGeneratedAdId' = currentGeneratedAdId + 1
    /\ IF Len(saving.variants) = 1
       THEN /\ response' = Plain(GenerateRoute, 200, saving.userId, "")
            /\ saving' = NoSaving
       ELSE /\ saving' = [saving EXCEPT !.variants = Tail(saving.variants)]
            /\ UNCHANGED response
    /\ UNCHANGED << users, userSettings, campaigns, apiUsage, currentUserId,
                    currentUserSettingsId, currentCampaignId, currentApiUsageId,
                    now, loaded >>

NextSaving ==
    \/ \E tone \in RequestTones, throws \in BOOLEAN, returned \in 0..MaxVariations :
          TrackGeneration(NoHeader, tone, throws, returned)
    \/ SaveNextAd
    \/ \E body \in AutoSaveBodies : PutSettings(NoHeader, body)
    \/ \E id \in AdIds : DeleteAd(NoHeader, id)

SpecSaving == Init /\ [][NextSaving]_vars


-----------------------------------------------------------------------------
(* The ad routes over a store that holds ads of two users, with and        *)
(* without a campaign.                                                     *)

GetAdsRoute == "GET /api/ads"

\* GET /api/ads; campaignId 0 is a request without the query parameter
GetAds(header, campaignId) ==
    LET auth == authenticateUser(users, header) IN
    /\ IF ~auth.ok
       THEN /\ response' = Plain(GetAdsRoute, auth.status, 0, auth.error)
            /\ loaded' = NoLoaded
       ELSE /\ response' = Plain(GetAdsRoute, 200, auth.userId, "")
            /\ loaded' = [status |-> "listed", userId |-> auth.userId,
                          ads |-> getGeneratedAdsOfCampaign(generatedAds, auth.userId,
                                                            campaignId)]
    /\ UNCHANGED << storeVars, now, saving >>

SecondUser == [id |-> 2, email |-> SecondEmail, googleAccessToken |-> "null"]

\* the second user's settings as the first login leaves them
SecondSettings ==
    [id |-> 2, userId |-> 2, businessLogo |-> "null", openaiApiKey |-> "null",
     autoSaveAds |-> "true"]

\* the owners and campaigns of the ads the store starts with
StoredProfiles == [userId : {1, 2}, campaignId : {0, 1}]

\* a draft as POST /api/ads/generate stores it
StoredAd(id, profile) ==
    [key |-> id, id |-> id, userId |-> profile.userId, campaignId |-> profile.campaignId,
     headline |-> HSaveNow, description |-> DWith, tone |-> "Professional",
     status |-> "draft", performance |-> NoPerformance, createdAt |-> 0]

\* the bodies of PUT /api/ads/:id: performance data, or an id field
StoredAdBodies == AdBodies \cup { [id |-> 2] }

InitAds ==
    /\ users = << DemoUser, SecondUser >>
    /\ userSettings = << KeyedSettings, SecondSettings >>
    /\ campaigns = <<>>
    /\ apiUsage = <<>>
    /\ currentUserId = 3
    /\ currentUserSettingsId = 3
    /\ currentCampaignId = InitialCampaignId
    /\ currentApiUsageId = InitialApiUsageId
    /\ now = 0
    /\ response = NoResponse
    /\ loaded = NoLoaded
    /\ saving = NoSaving
    /\ \E n \in 0..MaxStoredAds : \E list \in [1..n -> StoredProfiles] :
          /\ generatedAds = [i \in 1..n |-> StoredAd(i, list[i])]
          /\ currentGeneratedAdId = n + 1

NextAds ==
    \/ \E tone \in RequestTones : GenerateAds(NoHeader, tone, 1)
    \/ \E id \in AdIds, body \in StoredAdBodies : PutAd(NoHeader, id, body)
    \/ \E id \in AdIds : DeleteAd(NoHeader, id)
    \/ \E header \in {NoHeader, <<"2">>}, campaignId \in 0..1 : GetAds(header, campaignId)

SpecAds == InitAds /\ [][NextAds]_vars


-----------------------------------------------------------------------------
(* The campaign routes.  GoogleAdsClient stands in for the Google Ads API:  *)
(* exchangeCodeForTokens throws whatever the code, getCampaigns returns a   *)
(* fixed list of three campaigns.                                           *)

GoogleCallbackRoute == "POST /api/auth/google/callback"
GetCampaignsRoute == "GET /api/campaigns"

\* the ids of the campaigns GoogleAdsClient.getCampaigns returns
GoogleCampaignIds == << "1234567890", "1234567891", "1234567892" >>

\* POST /api/auth/google/callback: exchangeCodeForTokens throws, updateUser is not
\* reached
GoogleCallback(header) ==
    LET auth == authenticateUser(users, header) IN
    /\ response' = IF ~auth.ok
                   THEN Plain(GoogleCallbackRoute, auth.status, 0, auth.error)
                   ELSE Plain(GoogleCallbackRoute, 400, auth.userId,
                              "OAuth flow not implemented")
    /\ UNCHANGED << storeVars, now, loaded, saving >>

\* getCampaigns(userId)
getCampaigns(cs, userId) == SelectSeq(cs, LAMBDA c : c.userId = userId)

\* createCampaign(insertCampaign): the Map after the call
createCampaign(cs, nextId, userId, googleCampaignId) ==
    Append(cs, [id |-> nextId, userId |-> userId, googleCampaignId |-> googleCampaignId])

\* the loop over googleCampaigns, run without another request in between
RECURSIVE syncCampaigns(_, _, _, _)
syncCampaigns(cs, nextId, userId, googleIds) ==
    IF googleIds = <<>> THEN cs
    ELSE LET existing == getCampaigns(cs, userId)
             found == \E i \in 1..Len(existing) :
                          existing[i].googleCampaignId = Head(googleIds)
         IN  IF found THEN syncCampaigns(cs, nextId, userId, Tail(googleIds))
             ELSE syncCampaigns(createCampaign(cs, nextId, userId, Head(googleIds)),
                                nextId + 1, userId, Tail(googleIds))

\* GET /api/campaigns
GetCampaigns(header) ==
    LET auth == authenticateUser(users, header) IN
    IF ~auth.ok
    THEN /\ response' = Plain(GetCampaignsRoute, auth.status, 0, auth.error)
         /\ UNCHANGED << storeVars, now, loaded, saving >>
    ELSE /\ campaigns' =
               IF Truthy(getUser(users, auth.userId).googleAccessToken)
               THEN syncCampaigns(campaigns, currentCampaignId, auth.userId,
                                  GoogleCampaignIds)
               ELSE campaigns
         /\ currentCampaignId' = currentCampaignId + Len(campaigns') - Len(campaigns)
         /\ response' = Plain(GetCampaignsRoute, 200, auth.userId, "")
         /\ UNCHANGED << users, userSettings, generatedAds, apiUsage, currentUserId,
                         currentUserSettingsId, currentGeneratedAdId, currentApiUsageId,
                         now, loaded, saving >>

NextCampaigns ==
    \/ \E email \in Emails : DemoLogin(email)
    \/ \E header \in Headers : GoogleCallback(header)
    \/ \E header \in Headers : GetCampaigns(header)

SpecCampaigns == Init /\ [][NextCampaigns]_vars


-----------------------------------------------------------------------------
(* Claims.  A list is served when the last response is a suggestion list;  *)
(* no request that writes lies between it and the present state, so the    *)
(* stored ads of its user are the ads it was computed from.                *)

Served == response.route = SuggestionsRoute /\ response.hasList
ServedList == response.suggestions
ServedAds == getGeneratedAds(generatedAds, response.userId)
Analysed == Served /\ Len(ServedAds) >= 3

Shape(s) == << s.type, s.priority, s.confidence >>
Shapes(list) == [i \in 1..Len(list) |-> Shape(list[i])]

\* C1: a user with 0, 1 or 2 stored ads is served exactly the three fixed fallback
\* suggestions, headline/medium/65, tone/medium/70, description/low/75, in that order.
C1_FallbackFloor ==
    (Served /\ Len(ServedAds) < 3) =>
        /\ Shapes(ServedList) = << <<"headline", "medium", 65>>, <<"tone", "medium", 70>>,
                                   <<"description", "low", 75>> >>
        /\ ServedList[1].title = "Test Different Headline Approaches"
        /\ ServedList[2].title = "Experiment with Tone Variations"
        /\ ServedList[3].title = "Include Clear Call-to-Actions"

\* a user with two ads, one of them with performance data, has been served
C1_Witness ==
    /\ Served
    /\ Len(ServedAds) = 2
    /\ \E i \in 1..2 : ServedAds[i].performance.kind = "object"
    /\ \E i \in 1..2 : ServedAds[i].performance.kind = "null"

\* C2: for a user with at least 3 ads every high-priority suggestion precedes every
\* other one, and among the high ones and among the others confidence never increases.
C2_HighFirst ==
    Analysed =>
        \A i, j \in 1..Len(ServedList) :
            i < j =>
                /\ ServedList[j].priority = "high" => ServedList[i].priority = "high"
                /\ (ServedList[i].priority = "high") = (ServedList[j].priority = "high")
                       => ServedList[i].confidence >= ServedList[j].confidence

\* a list with a high suggestion and three others of two different confidences
C2_Witness ==
    /\ Analysed
    /\ Len(ServedList) >= 4
    /\ ServedList[1].priority = "high"
    /\ ServedList[2].confidence > ServedList[Len(ServedList)].confidence

TierRank(p) == CASE p = "high" -> 3 [] p = "medium" -> 2 [] p = "low" -> 1

\* C3: for a user with at least 3 ads the list is sorted by priority tier, then by
\* confidence: no lower tier precedes a higher one, and inside a tier confidence
\* never increases.
C3_TierThenConfidence ==
    Analysed =>
        \A i, j \in 1..Len(ServedList) :
            i < j =>
                /\ TierRank(ServedList[i].priority) >= TierRank(ServedList[j].priority)
                /\ ServedList[i].priority = ServedList[j].priority
                       => ServedList[i].confidence >= ServedList[j].confidence

\* a list that holds all three tiers and two suggestions of the medium tier
C3_Witness ==
    /\ Analysed
    /\ \E i, j, k, l \in 1..Len(ServedList) :
          /\ ServedList[i].priority = "high"
          /\ ServedList[j].priority = "medium" /\ ServedList[k].priority = "medium" /\ j # k
          /\ ServedList[l].priority = "low"

\* the ads of the served user that were recent when the list was computed
RecentCount == Len(SelectSeq(ServedAds, LAMBDA ad : response.at - ad.createdAt <= 30))

\* C4 as stated: every list served is non-empty.
C4_NeverEmpty == Served => Len(ServedList) >= 1

\* C4, amended: a list served to a user with fewer than 3 ads, or with fewer than 5
\* ads created within the last 30 days, is non-empty.
C4_NonEmptyBelowVolume ==
    (Served /\ (Len(ServedAds) < 3 \/ RecentCount < 5)) => Len(ServedList) >= 1

\* a user with 4 recent ads and no performance data is served one suggestion
C4_Witness ==
    /\ Analysed
    /\ RecentCount = 4
    /\ \A i \in 1..Len(ServedAds) : ServedAds[i].performance.kind = "null"
    /\ Len(ServedList) = 1

\* the served user's performance-bearing ads that carry a numeric click-through rate,
\* a rate of zero included, and whose headline opens with the pattern
PatternGroup(pattern) ==
    SelectSeq(ServedAds, LAMBDA ad : /\ ad.performance.kind = "object"
                                     /\ ad.performance.hasCtr
                                     /\ headlinePattern(ad.headline) = pattern)

GroupTotal(group) == sumOf([i \in 1..Len(group) |-> group[i].performance.ctr])

\* at least 2 members and a mean click-through rate above 0.02
ClearsThreshold(pattern) ==
    LET group == PatternGroup(pattern) IN
    Len(group) >= 2 /\ GroupTotal(group) > 20 * Len(group)

ServedPatterns == { headlinePattern(ServedAds[i].headline) : i \in 1..Len(ServedAds) }

HasHeadlineHigh ==
    \E i \in 1..Len(ServedList) : Shape(ServedList[i]) = <<"headline", "high", 85>>

\* C5 as stated: for a user with at least 3 ads the list holds a headline/high
\* suggestion of confidence 85 when some group of at least 2 performance-bearing ads
\* with the same three-token headline opening has a mean click-through rate above
\* 0.02, and no high-priority suggestion when no group has.
C5_HeadlineThreshold ==
    Analysed =>
        IF \E pattern \in ServedPatterns : ClearsThreshold(pattern)
        THEN HasHeadlineHigh
        ELSE \A i \in 1..Len(ServedList) : ServedList[i].priority # "high"

\* C5 over the groups the code forms, which leave out the ads whose click-through
\* rate is zero: the list holds the headline/high suggestion exactly when some group
\* of at least 2 such ads has a mean click-through rate above 0.02.
C5_NonZeroGroups ==
    Analysed =>
        LET clears(pattern) ==
               LET group == SelectSeq(PatternGroup(pattern),
                                      LAMBDA ad : ad.performance.ctr # 0)
               IN  Len(group) >= 2 /\ GroupTotal(group) > 20 * Len(group)
        IN  IF \E pattern \in ServedPatterns : clears(pattern)
            THEN HasHeadlineHigh
            ELSE \A i \in 1..Len(ServedList) : ServedList[i].priority # "high"

\* the ads the keyword analyzer selects: click-through rate above 0.025, the first 10
KeywordSample ==
    slice0(SelectSeq(ServedAds, LAMBDA ad : /\ ad.performance.kind = "object"
                                            /\ ad.performance.hasCtr
                                            /\ ad.performance.ctr > 25), 10)

\* the tokens of the selected ads, in order, repetitions kept
RECURSIVE TokensOf(_)
TokensOf(ads) ==
    IF ads = <<>> THEN <<>>
    ELSE splitWhitespace(toLowerCase(Head(ads).headline \o <<" ">> \o Head(ads).description))
            \o TokensOf(Tail(ads))

SampleTokens == TokensOf(KeywordSample)

Frequency(tokens, word) == Len(SelectSeq(tokens, LAMBDA t : t = word))

SurvivorsOf(tokens) ==
    { word \in { tokens[i] : i \in 1..Len(tokens) } :
        /\ Len(word) > 3
        /\ word \notin {T_with, T_your, T_that, T_this, T_from, T_will, T_have}
        /\ Frequency(tokens, word) >= 2 }

KeywordSuggestions == SelectSeq(ServedList, LAMBDA s : s.type = "keywords")

\* C6: the keywords suggestion names the first 3 (or fewer) of the tokens of the
\* selected ads that are longer than 3 characters, are no stop words and occur at
\* least twice, in descending order of frequency; no other token is ever named, and
\* the suggestion is absent when no token survives.
C6_KeywordWords ==
    Analysed =>
        LET tokens == SampleTokens
            survivors == SurvivorsOf(tokens)
            count == [word \in survivors |-> Frequency(tokens, word)]
            found == KeywordSuggestions
        IN  /\ Len(found) <= 1
            /\ survivors = {} => found = <<>>
            /\ (Len(KeywordSample) >= 3 /\ survivors # {}) => Len(found) = 1
            /\ \A k \in 1..Len(found) :
                  LET named == found[k].texts IN
                  /\ Len(named) = Min(3, Cardinality(survivors))
                  /\ \A i \in 1..Len(named) : named[i] \in survivors
                  /\ \A i, j \in 1..Len(named) :
                        i < j => named[i] # named[j] /\ count[named[i]] >= count[named[j]]
                  /\ \A word \in survivors :
                        (\A i \in 1..Len(named) : named[i] # word)
                            => count[word] <= count[named[Len(named)]]

\* more than 3 tokens survive, and a stop word and a three-letter token both occur
\* more often than a named word
C6_Witness ==
    /\ Analysed
    /\ Len(KeywordSuggestions) = 1
    /\ LET tokens == SampleTokens
           named == KeywordSuggestions[1].texts
       IN  /\ Cardinality(SurvivorsOf(tokens)) > 3
           /\ Frequency(tokens, T_with) > Frequency(tokens, named[1])
           /\ \E i \in 1..Len(tokens) :
                 /\ Len(tokens[i]) = 3
                 /\ Frequency(tokens, tokens[i]) >= Frequency(tokens, named[3])

HasVolumeSuggestion ==
    \E i \in 1..Len(ServedList) : Shape(ServedList[i]) = <<"description", "low", 60>>

\* C7: for a user with at least 3 ads the list holds the volume suggestion
\* (description/low, confidence 60) exactly when fewer than 5 of the user's ads were
\* created within the last 30 days, an ad exactly 30 days old counting as recent.
C7_VolumeBoundary == Analysed => (HasVolumeSuggestion <=> RecentCount < 5)

\* 5 recent ads, one of them exactly 30 days old, and no volume suggestion
C7_Witness ==
    /\ Analysed
    /\ Len(ServedAds) = 5
    /\ RecentCount = 5
    /\ \E i \in 1..5 : response.at - ServedAds[i].createdAt = 30
    /\ ~HasVolumeSuggestion

C9_StoreFailure ==
    (response.route = SuggestionsRoute /\ response.fault = "getGeneratedAds"
        /\ response.userId # 0) =>
        /\ response.status = 500
        /\ response.error = "Failed to fetch optimization suggestions"
        /\ ~response.hasList
        /\ response.suggestions = <<>>

\* the read failed for an authenticated user who has stored ads
C9_Witness ==
    /\ response.route = SuggestionsRoute
    /\ response.fault = "getGeneratedAds"
    /\ response.status = 500
    /\ response.userId # 0
    /\ getGeneratedAds(generatedAds, response.userId) # <<>>

\* C10: a suggestion request, its authentication included, leaves the users, the
\* settings, the campaigns, the generated ads, the usage records and every id
\* counter of the store as they were.
C10_NoSideEffects ==
    [][response'.route = SuggestionsRoute => UNCHANGED storeVars]_vars

\* a list has been served from a store with two users, usage records and stored ads
\* that an ordering by click-through rate would rearrange
C10_Witness ==
    /\ Served
    /\ Len(users) = 2
    /\ apiUsage # <<>>
    /\ \E i, j \in 1..Len(generatedAds) :
          i < j /\ generatedAds[i].performance.ctr < generatedAds[j].performance.ctr

\* every stored ad of the user the last response went to
OwnAds == SelectSeq(generatedAds, LAMBDA ad : ad.userId = response.userId)

IsFallbackList(list) ==
    /\ Len(list) = 3
    /\ list[1].title = "Test Different Headline Approaches"
    /\ list[2].title = "Experiment with Tone Variations"
    /\ list[3].title = "Include Clear Call-to-Actions"

\* C11: a suggestion request is computed over every ad of the user that the store
\* holds when it is served, the ads created by earlier requests included and the
\* deleted ones left out: the list is the engine's output over exactly those ads, and
\* it is the fallback list exactly when they are fewer than 3.
C11_ReadAfterWrite ==
    Served =>
        /\ ServedList = getOptimizationSuggestions(OwnAds, response.at)
        /\ IsFallbackList(ServedList) <=> Len(OwnAds) < 3

\* three ads were created for the user and the third is seen: no fallback
C11_Witness ==
    /\ Served
    /\ Len(OwnAds) = 3
    /\ OwnAds[3].id = currentGeneratedAdId - 1
    /\ ~IsFallbackList(ServedList)

\* three ads were created for the user, one was deleted, and the fallback is back
C11_WitnessAfterDelete ==
    /\ Served
    /\ currentGeneratedAdId = 4
    /\ Len(OwnAds) = 2
    /\ IsFallbackList(ServedList)

\* the stored ads are the ads before the step followed by one draft of the user per
\* variant, with the variant's text and the next ids in order
StoresVariants(userId, variants) ==
    /\ Len(generatedAds') = Len(generatedAds) + Len(variants)
    /\ SubSeq(generatedAds', 1, Len(generatedAds)) = generatedAds
    /\ \A k \in 1..Len(variants) :
          LET ad == generatedAds'[Len(generatedAds) + k] IN
          /\ ad.userId = userId
          /\ ad.status = "draft"
          /\ ad.headline = variants[k].headline
          /\ ad.description = variants[k].description
          /\ ad.id = currentGeneratedAdId + k - 1

\* C12: POST /api/ads/generate stores ads only when the generation call returned
\* variants and the requesting user's auto-save setting is true, and then one draft
\* owned by that user per returned variant; with no API key, a failed generation or
\* auto-save false or null the stored ads are unchanged.
C12_AutoSave ==
    [][\A header \in Headers, tone \in RequestTones, returned \in 0..MaxVariations :
          GenerateAds(header, tone, returned) =>
              LET userId == response'.userId
                  settings == getUserSettings(userSettings, userId)
              IN  IF /\ response'.status = 200
                     /\ returned > 0
                     /\ settings.openaiApiKey = "sk-key"
                     /\ settings.autoSaveAds = "true"
                  THEN StoresVariants(userId, SubSeq(GenVariants, 1, returned))
                  ELSE generatedAds' = generatedAds]_vars

\* a generation succeeded for a user whose auto-save is off and who has drafts of an
\* earlier generation: the store holds a usage record more than generations saved
C12_Witness ==
    /\ response.route = GenerateRoute
    /\ response.status = 200
    /\ getUserSettings(userSettings, response.userId).autoSaveAds \in {"false", "null"}
    /\ Len(apiUsage) = 2
    /\ Len(getGeneratedAds(generatedAds, response.userId)) = 2

\* the ads with every performance object that lacks the ctr field replaced by null
WithoutFieldless(ads) ==
    [i \in 1..Len(ads) |->
        IF ads[i].performance.kind = "object" /\ ~ads[i].performance.hasCtr
        THEN [ads[i] EXCEPT !.performance = NoPerformance]
        ELSE ads[i]]

NumericAds == SelectSeq(ServedAds, LAMBDA ad : ad.performance.kind = "object"
                                               /\ ad.performance.hasCtr)

\* C13: ads whose performance object lacks the ctr field do not make the request
\* fail and enter no analyzer's sample: the list is the one the same ads yield with
\* those performance values null, no suggestion is based on more ads than carry a
\* click-through rate, and the ads still count for the fallback threshold and for
\* the volume analyzer.
C13_MissingCtr ==
    (response.route = SuggestionsRoute /\ response.fault = "none" /\ response.userId # 0) =>
        /\ response.status = 200 /\ response.hasList
        /\ ServedList = getOptimizationSuggestions(WithoutFieldless(ServedAds), response.at)
        /\ IsFallbackList(ServedList) <=> Len(ServedAds) < 3
        /\ Len(ServedAds) >= 3 =>
              /\ \A i \in 1..Len(ServedList) : ServedList[i].basedOnCount <= Len(NumericAds)
              /\ HasVolumeSuggestion <=> RecentCount < 5

\* five ads, three of them with a click-through rate and two with a performance
\* object that lacks it: the analyzers fire on three ads and the volume analyzer is
\* silent on five
C13_Witness ==
    /\ Served
    /\ Len(ServedAds) = 5
    /\ Len(NumericAds) = 3
    /\ Len(SelectSeq(ServedAds, LAMBDA ad : ad.performance = EmptyPerformance)) = 2
    /\ ~HasVolumeSuggestion
    /\ \E i \in 1..Len(ServedList) : ServedList[i].basedOnCount = 3

\* C14: every suggestion of every list served, fallback or computed, has a type among
\* headline, description, tone, focus and keywords, a priority among high, medium
\* and low, and an integer confidence from 0 to 100.
C14_FieldRanges ==
    Served =>
        \A i \in 1..Len(ServedList) :
            /\ ServedList[i].type \in {"headline", "description", "tone", "focus", "keywords"}
            /\ ServedList[i].priority \in {"high", "medium", "low"}
            /\ ServedList[i].confidence \in 0..100

\* a computed list that holds a suggestion of every analyzer
C14_Witness ==
    /\ Analysed
    /\ Len(ServedList) = 5
    /\ \E i \in 1..5 : ServedList[i].title = "Optimize Headline Length"
    /\ { ServedList[i].type : i \in 1..5 } = {"headline", "tone", "keywords", "description"}
    /\ { ServedList[i].priority : i \in 1..5 } = {"high", "medium", "low"}

\* the place of a computed suggestion's analyzer in the order the analyzers run
ProducedAt(s) ==
    CASE s.title = "Optimize Headlines Based on Top Performers" -> 1
      [] s.title = "Tone Performs Best" -> 2
      [] s.title = "Optimize Headline Length" -> 3
      [] s.title = "High-Impact Keywords Identified" -> 4
      [] s.title = "Generate More Ad Variations" -> 5

\* C15: two suggestions of a computed list that compare equal (both high or both not
\* high, and of the same confidence) stand in the order their analyzers ran:
\* headline, tone, length, keyword, volume; the tone suggestion precedes the
\* length-band suggestion, both being medium with confidence 75.
C15_StableTies ==
    Analysed =>
        \A i, j \in 1..Len(ServedList) :
            (/\ i < j
             /\ (ServedList[i].priority = "high") = (ServedList[j].priority = "high")
             /\ ServedList[i].confidence = ServedList[j].confidence)
                => ProducedAt(ServedList[i]) < ProducedAt(ServedList[j])

\* the tone suggestion and the length-band suggestion are both in the list
C15_Witness ==
    /\ Analysed
    /\ \E i, j \in 1..Len(ServedList) :
          /\ i < j
          /\ Shape(ServedList[i]) = <<"tone", "medium", 75>>
          /\ Shape(ServedList[j]) = <<"headline", "medium", 75>>

ObjectAds == SelectSeq(ServedAds, LAMBDA ad : ad.performance.kind = "object")

\* C16: for a user with at least 3 ads the pattern analyzers see the ads whose
\* performance is an object and the volume analyzer sees every ad: no pattern
\* suggestion is based on more ads than have such a performance, the volume
\* suggestion is there exactly when fewer than 5 of all ads are recent, and when no
\* ad has such a performance the list is the volume suggestion alone or empty.
C16_VolumeSeesAll ==
    Analysed =>
        /\ HasVolumeSuggestion <=> RecentCount < 5
        /\ \A i \in 1..Len(ServedList) : ServedList[i].basedOnCount <= Len(ObjectAds)
        /\ ObjectAds = <<>> =>
              Shapes(ServedList) = IF RecentCount < 5
                                   THEN << <<"description", "low", 60>> >>
                                   ELSE <<>>

\* five recent ads without performance: nothing is suggested
C16_Witness ==
    /\ Analysed
    /\ Len(ServedAds) = 5
    /\ RecentCount = 5
    /\ ObjectAds = <<>>
    /\ \E i \in 1..5 : ServedAds[i].performance.kind = "scalar"
    /\ \E i \in 1..5 : ServedAds[i].performance.kind = "null"
    /\ ServedList = <<>>

\* five ads without performance, four of them recent: the volume suggestion alone
C16_WitnessVolume ==
    /\ Analysed
    /\ Len(ServedAds) = 5
    /\ RecentCount = 4
    /\ ObjectAds = <<>>
    /\ Len(ServedList) = 1

\* the first three whitespace-delimited tokens of a headline
WhitespacePrefix(headline) ==
    joinSpace(slice0(SelectSeq(splitWhitespace(headline), LAMBDA t : t # <<>>), 3))

\* the served user's ads with an object performance and a numeric click-through rate,
\* a rate of zero included, whose headline has the prefix
PrefixGroup(prefix) ==
    SelectSeq(NumericAds, LAMBDA ad : WhitespacePrefix(ad.headline) = prefix)

ServedPrefixes == { WhitespacePrefix(NumericAds[i].headline) : i \in 1..Len(NumericAds) }

HeadlineSuggestions ==
    SelectSeq(ServedList, LAMBDA s : s.title = "Optimize Headlines Based on Top Performers")

\* C17 as stated: the headline-pattern suggestion names a group of at least 2
\* performance-bearing ads that share their first three whitespace-delimited headline
\* tokens, cites the number of all ads of that group, and no group of at least 2 ads
\* has a higher mean click-through rate over all its ads; at most one is emitted.
C17_HeadlineGroups ==
    Analysed =>
        /\ Len(HeadlineSuggestions) <= 1
        /\ \A k \in 1..Len(HeadlineSuggestions) :
              \E prefix \in ServedPrefixes :
                  LET group == PrefixGroup(prefix) IN
                  /\ HeadlineSuggestions[k].texts = << prefix >>
                  /\ Len(group) >= 2
                  /\ HeadlineSuggestions[k].basedOnCount = Len(group)
                  /\ \A other \in ServedPrefixes :
                        LET rival == PrefixGroup(other) IN
                        Len(rival) >= 2 =>
                            GroupTotal(rival) * Len(group) <= GroupTotal(group) * Len(rival)

\* the ads the code groups: a click-through rate that is present and not zero
CountedAds == SelectSeq(NumericAds, LAMBDA ad : ad.performance.ctr # 0)

CodeGroup(pattern) ==
    SelectSeq(CountedAds, LAMBDA ad : headlinePattern(ad.headline) = pattern)

\* C17 over the groups the code forms: the ads with a click-through rate other than
\* zero, grouped by the first three pieces of the headline split at single spaces.
C17_CodeGroups ==
    Analysed =>
        /\ Len(HeadlineSuggestions) <= 1
        /\ \A k \in 1..Len(HeadlineSuggestions) :
              \E pattern \in ServedPatterns :
                  LET group == CodeGroup(pattern) IN
                  /\ HeadlineSuggestions[k].texts = << pattern >>
                  /\ Len(group) >= 2
                  /\ HeadlineSuggestions[k].basedOnCount = Len(group)
                  /\ \A other \in ServedPatterns :
                        LET rival == CodeGroup(other) IN
                        Len(rival) >= 2 =>
                            GroupTotal(rival) * Len(group) <= GroupTotal(group) * Len(rival)

\* C17 as stated, for users none of whose ads has a click-through rate of zero: what
\* is left to violate it is the split at single spaces.
C17_WithoutZeroRates ==
    (Analysed /\ Len(CountedAds) = Len(NumericAds)) => C17_HeadlineGroups

\* C17 as stated, for users whose headlines have single spaces only: what is left to
\* violate it is the click-through rate of zero.
C17_SingleSpaced ==
    (Analysed /\ \A i \in 1..Len(ServedAds) :
                    WhitespacePrefix(ServedAds[i].headline) = headlinePattern(ServedAds[i].headline))
        => C17_HeadlineGroups

\* the served user's ads with an object performance, a numeric click-through rate,
\* zero included, and the tone
ToneGroup(tone) == SelectSeq(NumericAds, LAMBDA ad : ad.tone = tone)

ServedTones == { ServedAds[i].tone : i \in 1..Len(ServedAds) } \ {""}

ToneSuggestions == SelectSeq(ServedList, LAMBDA s : s.type = "tone")

\* C18 as stated: for a user with at least 3 ads at most one tone suggestion is
\* emitted; one is emitted exactly when, among the tones that at least 2
\* performance-bearing ads have, the highest mean click-through rate is above 0.02,
\* and it is tone/medium with confidence 75 and names a tone of that highest mean.
C18_ToneGroups ==
    Analysed =>
        LET candidates == { tone \in ServedTones : Len(ToneGroup(tone)) >= 2 }
            clears(tone) == GroupTotal(ToneGroup(tone)) > 20 * Len(ToneGroup(tone))
        IN  /\ Len(ToneSuggestions) <= 1
            /\ Len(ToneSuggestions) = 1 <=> \E tone \in candidates : clears(tone)
            /\ \A k \in 1..Len(ToneSuggestions) :
                  LET named == ToneSuggestions[k].tone IN
                  /\ Shape(ToneSuggestions[k]) = <<"tone", "medium", 75>>
                  /\ named \in candidates
                  /\ \A other \in candidates :
                        GroupTotal(ToneGroup(other)) * Len(ToneGroup(named))
                            <= GroupTotal(ToneGroup(named)) * Len(ToneGroup(other))

CodeToneGroup(tone) == SelectSeq(CountedAds, LAMBDA ad : ad.tone = tone)

\* C18 over the groups the code forms, which leave out the ads whose click-through
\* rate is zero.
C18_CodeGroups ==
    Analysed =>
        LET candidates == { tone \in ServedTones : Len(CodeToneGroup(tone)) >= 2 }
            clears(tone) == GroupTotal(CodeToneGroup(tone)) > 20 * Len(CodeToneGroup(tone))
        IN  /\ Len(ToneSuggestions) <= 1
            /\ Len(ToneSuggestions) = 1 <=> \E tone \in candidates : clears(tone)
            /\ \A k \in 1..Len(ToneSuggestions) :
                  LET named == ToneSuggestions[k].tone IN
                  /\ Shape(ToneSuggestions[k]) = <<"tone", "medium", 75>>
                  /\ named \in candidates
                  /\ \A other \in candidates :
                        GroupTotal(CodeToneGroup(other)) * Len(CodeToneGroup(named))
                            <= GroupTotal(CodeToneGroup(named)) * Len(CodeToneGroup(other))

\* the served user's ads with an object performance and a click-through rate above 0
PositiveAds == SelectSeq(NumericAds, LAMBDA ad : ad.performance.ctr > 0)

LengthSuggestions == SelectSeq(ServedList, LAMBDA s : s.title = "Optimize Headline Length")

\* C19: for a user with at least 3 ads the length-band suggestion, headline/medium
\* with confidence 75, is in the list exactly when at least 5 performance-bearing ads
\* have a click-through rate above zero.
C19_LengthThreshold ==
    Analysed =>
        /\ Len(LengthSuggestions) = IF Len(PositiveAds) >= 5 THEN 1 ELSE 0
        /\ \A k \in 1..Len(LengthSuggestions) :
              Shape(LengthSuggestions[k]) = <<"headline", "medium", 75>>

\* six performance-bearing ads, exactly five of them with a rate above zero
C19_Witness ==
    /\ Analysed
    /\ Len(NumericAds) = 6
    /\ Len(PositiveAds) = 5
    /\ Len(LengthSuggestions) = 1

\* six performance-bearing ads, four of them with a rate above zero: no suggestion
C19_WitnessBelow ==
    /\ Analysed
    /\ Len(NumericAds) = 6
    /\ Len(PositiveAds) = 4
    /\ LengthSuggestions = <<>>

\* C20: the length-band suggestion over n qualifying ads is based on those n ads and
\* reports the minimum and the maximum headline length of a top slice, ceil(0.3 n)
\* ads none of which has a lower click-through rate than an ad outside the slice,
\* and as optimal length the slice's mean headline length rounded to the nearest
\* integer, halves up; the optimal length lies between minimum and maximum.
C20_TopSlice ==
    Analysed =>
        \A s \in 1..Len(LengthSuggestions) :
            LET ads == PositiveAds
                n == Len(ads)
                size == CHOOSE k \in 1..n : 10 * k >= 3 * n /\ 10 * (k - 1) < 3 * n
                lowest == LengthSuggestions[s].numbers[1]
                highest == LengthSuggestions[s].numbers[2]
                optimal == LengthSuggestions[s].numbers[3]
            IN  /\ LengthSuggestions[s].basedOnCount = n
                /\ lowest <= optimal /\ optimal <= highest
                /\ \E slice \in SUBSET (1..n) :
                      LET total == sumOf([i \in 1..n |->
                                            IF i \in slice THEN Len(ads[i].headline) ELSE 0])
                      IN  /\ Cardinality(slice) = size
                          /\ \A i \in slice : \A j \in (1..n) \ slice :
                                ads[i].performance.ctr >= ads[j].performance.ctr
                          /\ \A i \in slice : lowest <= Len(ads[i].headline)
                          /\ \A i \in slice : Len(ads[i].headline) <= highest
                          /\ \E i \in slice : lowest = Len(ads[i].headline)
                          /\ \E i \in slice : highest = Len(ads[i].headline)
                          /\ 2 * size * optimal <= 2 * total + size
                          /\ 2 * total + size < 2 * size * (optimal + 1)

\* a slice of 2 ads with headlines of 5 and 10 characters: the mean 7.5 is reported as 8
C20_Witness ==
    /\ Analysed
    /\ Len(LengthSuggestions) = 1
    /\ Len(PositiveAds) = 5
    /\ LengthSuggestions[1].numbers = << 5, 10, 8 >>

\* the served user's ads with an object performance and a click-through rate above
\* 0.025, in the order of the store
QualifyingAds ==
    SelectSeq(ServedAds, LAMBDA ad : /\ ad.performance.kind = "object"
                                     /\ ad.performance.hasCtr
                                     /\ ad.performance.ctr > 25)

\* the served user's ads without the qualifying ones after the tenth
RECURSIVE UpToTenth(_, _)
UpToTenth(ads, seen) ==
    IF ads = <<>> THEN <<>>
    ELSE LET qualifies == /\ Head(ads).performance.kind = "object"
                          /\ Head(ads).performance.hasCtr
                          /\ Head(ads).performance.ctr > 25
         IN  IF qualifies /\ seen >= 10 THEN UpToTenth(Tail(ads), seen)
             ELSE << Head(ads) >> \o UpToTenth(Tail(ads), IF qualifies THEN seen + 1 ELSE seen)

\* C21: the keyword analyzer's sample is the first 10, or fewer, of the user's ads
\* with a click-through rate above 0.025, in the order of the store: with fewer than
\* 3 such ads no keywords suggestion is emitted, an ad at exactly 0.025 is not one of
\* them, the suggestion is based on min(10, n) ads and names words of those ads
\* only, as many and the same as without the qualifying ads after the tenth.
C21_KeywordSample ==
    Analysed =>
        LET sample == SubSeq(QualifyingAds, 1, Min(10, Len(QualifyingAds)))
            tokens == TokensOf(sample)
            survivors == SurvivorsOf(tokens)
            found == KeywordSuggestions
            rest == getOptimizationSuggestions(UpToTenth(ServedAds, 0), response.at)
        IN  /\ Len(QualifyingAds) < 3 => found = <<>>
            /\ (Len(QualifyingAds) >= 3 /\ survivors # {}) => Len(found) = 1
            /\ \A k \in 1..Len(found) :
                  /\ found[k].basedOnCount = Len(sample)
                  /\ \A i \in 1..Len(found[k].texts) : found[k].texts[i] \in survivors
                  /\ \A i, j \in 1..Len(found[k].texts) :
                        i < j => Frequency(tokens, found[k].texts[i])
                                    >= Frequency(tokens, found[k].texts[j])
            /\ found = SelectSeq(rest, LAMBDA s : s.type = "keywords")

\* eleven ads qualify; the tenth and the eleventh are the newest, have the highest
\* click-through rate and share their words, which are not named: the sample holds
\* them once
C21_Witness ==
    /\ Analysed
    /\ Len(QualifyingAds) = 11
    /\ \A i \in 10..11 : QualifyingAds[i].headline = HFree
    /\ \A i \in 1..9 : QualifyingAds[i].headline = HSaveToday
    /\ Len(KeywordSuggestions) = 1
    /\ KeywordSuggestions[1].basedOnCount = 10
    /\ Len(KeywordSuggestions[1].texts) = 2

\* two ads above the threshold and two exactly at it: no keywords suggestion
C21_WitnessThreshold ==
    /\ Analysed
    /\ Len(ServedAds) = 4
    /\ Len(QualifyingAds) = 2
    /\ \A i \in 1..4 : ServedAds[i].performance.ctr >= 25
    /\ KeywordSuggestions = <<>>

\* C22: a suggestion request computes over one snapshot: the list it holds is the
\* user's stored ads of the moment of the load, no create, update or delete that
\* completes while the request is in flight changes that list, and the response is
\* the engine's result for that list.
C22_Snapshot ==
    [][ /\ (loaded.status # "pending" /\ loaded'.status = "pending") =>
              loaded'.ads = SelectSeq(generatedAds, LAMBDA ad : ad.userId = loaded'.userId)
        /\ (loaded.status = "pending" /\ loaded'.status = "pending") =>
              loaded'.ads = loaded.ads
        /\ (loaded.status = "pending" /\ loaded'.status = "done") =>
              /\ loaded'.ads = loaded.ads
              /\ response'.route = SuggestionsRoute
              /\ response'.status = 200
              /\ response'.suggestions =
                    getOptimizationSuggestions(loaded.ads, response'.at) ]_vars

\* a response just served over a list that the store no longer holds: an ad of the
\* list was updated and another deleted while the request was in flight, and the
\* engine's result for the stored list is a different one
C22_Witness ==
    /\ loaded.status = "done"
    /\ response.route = SuggestionsRoute
    /\ response.status = 200
    /\ LET stored == SelectSeq(generatedAds, LAMBDA ad : ad.userId = loaded.userId) IN
       /\ \E i \in 1..Len(loaded.ads), j \in 1..Len(stored) :
             /\ loaded.ads[i].id = stored[j].id
             /\ loaded.ads[i].performance # stored[j].performance
       /\ \E i \in 1..Len(loaded.ads) :
             \A j \in 1..Len(stored) : loaded.ads[i].id # stored[j].id
       /\ response.suggestions = getOptimizationSuggestions(loaded.ads, response.at)
       /\ response.suggestions # getOptimizationSuggestions(stored, response.at)

\* the ads stored for a user, in the order of the store
AdsOf(ads, userId) == SelectSeq(ads, LAMBDA ad : ad.userId = userId)

\* the step is a generate, update or delete request served as user b
ServedAs(b) ==
    /\ response'.route \in {GenerateRoute, PutAdRoute, DeleteAdRoute}
    /\ response'.userId = b

\* C23: a generate, update or delete request authenticated as one user leaves the ad
\* list of every other user, and so the suggestions computed from it, as they were.
C23_Noninterference ==
    [][ \A a, b \in 1..MaxUsers :
          (a # b /\ ServedAs(b)) =>
              /\ AdsOf(generatedAds', a) = AdsOf(generatedAds, a)
              /\ getOptimizationSuggestions(AdsOf(generatedAds', a), now)
                    = getOptimizationSuggestions(AdsOf(generatedAds, a), now) ]_vars

\* what the routes do guarantee: a generate request changes the list of no other user
C23_GenerateIsolated ==
    [][ \A a, b \in 1..MaxUsers :
          (a # b /\ response'.route = GenerateRoute /\ response'.userId = b) =>
              AdsOf(generatedAds', a) = AdsOf(generatedAds, a) ]_vars

\* the user a header names: "2" and "2x" read as 2 (parseInt stops at the first
\* character that is no digit), the other headers of the model name nobody
NamedUser(header) == IF header \in { <<"2">>, <<"2", "x">> } THEN 2 ELSE 0

\* C24: user 1 exists in every reachable state, so the middleware rejects no request
\* with 401: a request whose header is missing, unparsable or names no user proceeds
\* as user 1, and a request whose header names a user proceeds as that user; a 401
\* is the answer only for a user table without user 1.
C24_DemoFallback ==
    /\ \E i \in 1..Len(users) : users[i].id = 1
    /\ response.status # 401
    /\ \A header \in Headers :
          LET auth == authenticateUser(users, header)
              known == \E i \in 1..Len(users) : users[i].id = NamedUser(header)
          IN  /\ auth.ok
              /\ auth.userId = IF known THEN NamedUser(header) ELSE 1
    /\ \A header \in Headers :
          \A us \in { users, SelectSeq(users, LAMBDA u : u.id # 1) } :
              authenticateUser(us, header).status = 401 =>
                  ~ \E i \in 1..Len(us) : us[i].id = 1

\* both users exist: a request has been served as user 2, and a request with a
\* header that names nobody would be served as user 1
C24_Witness ==
    /\ Len(users) = 2
    /\ response.route = PutSettingsRoute
    /\ response.status = 200
    /\ response.userId = 2
    /\ authenticateUser(users, <<"a">>).userId = 1
    /\ authenticateUser(users, <<"2", "x">>).userId = 2

\* only user 1 exists and a request has been served as user 1, whatever its header
C24_WitnessUnknown ==
    /\ Len(users) = 1
    /\ response.route = PutSettingsRoute
    /\ response.status = 200
    /\ response.userId = 1
    /\ authenticateUser(users, <<"2">>).userId = 1

\* the number of elements of a list that satisfy a test
CountOf(list, Test(_)) == Len(SelectSeq(list, Test))

\* C25: for a user with at least 3 ads the list has at most 5 suggestions, at most
\* one of each analyzer: at most one of priority high, which is then the first
\* element, at most one of type tone, one of type keywords, one headline suggestion
\* of priority medium and one of priority low.
C25_AtMostFive ==
    Analysed =>
        /\ Len(ServedList) <= 5
        /\ CountOf(ServedList, LAMBDA s : s.priority = "high") <= 1
        /\ (\E i \in 1..Len(ServedList) : ServedList[i].priority = "high")
              => ServedList[1].priority = "high"
        /\ CountOf(ServedList, LAMBDA s : s.type = "tone") <= 1
        /\ CountOf(ServedList, LAMBDA s : s.type = "keywords") <= 1
        /\ CountOf(ServedList, LAMBDA s : s.type = "headline" /\ s.priority = "medium") <= 1
        /\ CountOf(ServedList, LAMBDA s : s.priority = "low") <= 1

\* every analyzer has fired: five suggestions, the high one first
C25_Witness ==
    /\ Analysed
    /\ Len(ServedList) = 5
    /\ ServedList[1].priority = "high"
    /\ \E i \in 2..5 : ServedList[i].type = "tone"
    /\ \E i \in 2..5 : ServedList[i].type = "keywords"
    /\ \E i \in 2..5 : ServedList[i].type = "headline"
    /\ ServedList[5].priority = "low"

\* the usage record createApiUsage writes for a user
UsageRecord(userId) ==
    [id |-> currentApiUsageId, userId |-> userId, service |-> "openai",
     operation |-> "ad_generation"]

\* C26: a generation request adds exactly one usage record, for the requesting user,
\* when the model call succeeds, with auto-save on or off and before any of its ads
\* is saved; a request rejected for a missing key or failing in the model call adds
\* none, and no other step of any request adds or removes one.
C26_UsagePerGeneration ==
    [][ /\ \A tone \in RequestTones, throws \in BOOLEAN, returned \in 0..MaxVariations :
             TrackGeneration(NoHeader, tone, throws, returned) =>
                 LET settings == getUserSettings(userSettings, DemoUserId) IN
                 IF settings.openaiApiKey = "sk-key" /\ ~throws
                 THEN /\ apiUsage' = Append(apiUsage, UsageRecord(DemoUserId))
                      /\ generatedAds' = generatedAds
                      /\ \/ saving'.status = "saving"
                         \/ response'.route = GenerateRoute /\ response'.status = 200
                 ELSE /\ apiUsage' = apiUsage
                      /\ response'.route = GenerateRoute
                      /\ response'.status \in {400, 500}
        /\ apiUsage' # apiUsage =>
              /\ saving.status = "none"
              /\ generatedAds' = generatedAds
              /\ Len(apiUsage') = Len(apiUsage) + 1
        /\ generatedAds' # generatedAds /\ Len(generatedAds') > Len(generatedAds) =>
              /\ apiUsage' = apiUsage
              /\ \E i \in 1..Len(apiUsage) : apiUsage[i].userId = saving.userId ]_vars

\* a generation in flight: its usage record is written, none of its three ads is
\* saved yet
C26_Witness ==
    /\ saving.status = "saving"
    /\ Len(saving.variants) = 3
    /\ Len(apiUsage) = 1
    /\ apiUsage[1].userId = saving.userId
    /\ generatedAds = <<>>

\* two generations succeeded with auto-save off: two usage records and no ad
C26_WitnessNoAutoSave ==
    /\ response.route = GenerateRoute
    /\ response.status = 200
    /\ ~Truthy(getUserSettings(userSettings, response.userId).autoSaveAds)
    /\ Len(apiUsage) = 2
    /\ generatedAds = <<>>
    /\ currentGeneratedAdId = InitialGeneratedAdId

\* the settings records of a user
SettingsOf(ss, userId) == SelectSeq(ss, LAMBDA r : r.userId = userId)

\* C27: the store holds at most one settings record per user, with ids all different
\* and below the counter.  PUT /api/settings for a user with a record keeps the
\* record's id and place, overwrites the fields the body supplies and keeps the
\* others, and leaves the other users' records alone; the upsert for a user without a
\* record (a first login) appends one record with the counter's value as its id.
C27_OneSettingsRecord ==
    /\ \A i, j \in 1..Len(userSettings) :
          i # j => /\ userSettings[i].userId # userSettings[j].userId
                   /\ userSettings[i].id # userSettings[j].id
    /\ \A i \in 1..Len(userSettings) : userSettings[i].id < currentUserSettingsId

C27_Upsert ==
    [][ /\ \A header \in Headers, body \in AutoSaveBodies :
             (PutSettings(header, body) /\ response'.status = 200) =>
                 LET u == response'.userId IN
                 /\ Len(userSettings') = Len(userSettings)
                 /\ \A i \in 1..Len(userSettings) :
                       IF userSettings[i].userId = u
                       THEN /\ userSettings'[i].id = userSettings[i].id
                            /\ userSettings'[i].userId = u
                            /\ \A f \in {"businessLogo", "openaiApiKey", "autoSaveAds"} :
                                  userSettings'[i][f] =
                                     IF body[f] = "absent" THEN userSettings[i][f] ELSE body[f]
                       ELSE userSettings'[i] = userSettings[i]
        /\ Len(userSettings') # Len(userSettings) =>
              /\ response'.route = DemoLoginRoute
              /\ Len(SettingsOf(userSettings, response'.userId)) = 0
              /\ Len(userSettings') = Len(userSettings) + 1
              /\ SubSeq(userSettings', 1, Len(userSettings)) = userSettings
              /\ userSettings'[Len(userSettings')].id = currentUserSettingsId
              /\ userSettings'[Len(userSettings')].userId = response'.userId
              /\ currentUserSettingsId' = currentUserSettingsId + 1 ]_vars

KeysOf(ads) == [i \in 1..Len(ads) |-> ads[i].key]

\* what GET /api/ads answers, what an update does to the order and what a create does
\* to the counter: the list read is exactly the user's stored ads, of the campaign
\* when one is given, in the order of the store; a PUT leaves every ad in its place;
\* a new ad takes the counter's value, which only grows, so that no value is handed
\* out twice
ListsAndPlaces ==
    [][ /\ \A header \in {NoHeader, <<"2">>}, campaignId \in 0..1 :
             GetAds(header, campaignId) =>
                 LET u == response'.userId
                     picked == { i \in 1..Len(generatedAds) :
                                   /\ generatedAds[i].userId = u
                                   /\ campaignId # 0 =>
                                          generatedAds[i].campaignId = campaignId }
                 IN  /\ Len(loaded'.ads) = Cardinality(picked)
                     /\ \A k \in 1..Len(loaded'.ads) :
                           \E i \in picked :
                               /\ loaded'.ads[k] = generatedAds[i]
                               /\ Cardinality({ j \in picked : j < i }) = k - 1
        /\ response'.route = PutAdRoute => KeysOf(generatedAds') = KeysOf(generatedAds)
        /\ currentGeneratedAdId' >= currentGeneratedAdId
        /\ Len(generatedAds') > Len(generatedAds) =>
              /\ Len(generatedAds') = Len(generatedAds) + 1
              /\ generatedAds'[Len(generatedAds')].id = currentGeneratedAdId
              /\ generatedAds'[Len(generatedAds')].key = currentGeneratedAdId
              /\ currentGeneratedAdId' = currentGeneratedAdId + 1 ]_vars

\* the ids the stored ads carry are all different and increase in the order of
\* creation
IdsIncrease ==
    \A i, j \in 1..Len(generatedAds) :
        i < j => generatedAds[i].id < generatedAds[j].id

\* the same of the Map keys
KeysIncrease ==
    /\ \A i, j \in 1..Len(generatedAds) :
          i < j => generatedAds[i].key < generatedAds[j].key
    /\ \A i \in 1..Len(generatedAds) : generatedAds[i].key < currentGeneratedAdId

\* C28: the ids of the stored ads are unique, strictly increasing in creation order
\* and never reused after a delete; getGeneratedAds returns exactly the user's stored
\* ads, of the campaign when one is given, in creation order, and an update does not
\* change an ad's position.
C28_AdIds == ListsAndPlaces /\ []IdsIncrease

\* what the store does guarantee: the claim read of the Map keys instead of the id
\* fields of the stored ads
C28_AdKeys == ListsAndPlaces /\ []KeysIncrease

\* C30: PUT or DELETE of a key the store does not hold answers 404 'Ad not found' and
\* leaves the store as it was; DELETE of a key it holds removes exactly that entry, so
\* that the same delete again finds nothing.
C30_AbsentAd ==
    [][ /\ \A id \in AdIds, body \in StoredAdBodies :
             PutAd(NoHeader, id, body) =>
                 IF \E i \in 1..Len(generatedAds) : generatedAds[i].key = id
                 THEN response'.status = 200
                 ELSE /\ response'.status = 404
                      /\ response'.error = "Ad not found"
                      /\ UNCHANGED storeVars
        /\ \A id \in AdIds :
             DeleteAd(NoHeader, id) =>
                 IF \E i \in 1..Len(generatedAds) : generatedAds[i].key = id
                 THEN /\ response'.status = 200
                      /\ Len(generatedAds') = Len(generatedAds) - 1
                      /\ \A i \in 1..Len(generatedAds') : generatedAds'[i].key # id
                      /\ \A i \in 1..Len(generatedAds) :
                            generatedAds[i].key # id =>
                               \E j \in 1..Len(generatedAds') :
                                   /\ generatedAds'[j] = generatedAds[i]
                                   /\ j = Cardinality({ k \in 1..i :
                                                          generatedAds[k].key # id })
                      /\ ~hasGeneratedAd(generatedAds', id)
                      /\ deleteGeneratedAd(generatedAds', id) = generatedAds'
                 ELSE /\ response'.status = 404
                      /\ response'.error = "Ad not found"
                      /\ UNCHANGED storeVars ]_vars

\* every key of the model has been handed out, one ad has been deleted and two are
\* left, and a delete has been answered 404: a second delete of the same key
C30_Witness ==
    /\ response.route = DeleteAdRoute
    /\ response.status = 404
    /\ response.error = "Ad not found"
    /\ currentGeneratedAdId = MaxAdId + 1
    /\ Len(generatedAds) = 2

\* an update of a key that was never handed out
C30_WitnessUpdate ==
    /\ response.route = PutAdRoute
    /\ response.status = 404
    /\ currentGeneratedAdId = 2
    /\ Len(generatedAds) = 1

\* The synchronisation of GET /api/campaigns runs for a user who holds a Google
\* access token.  Users are created without one and the only route that stores one
\* fails before it does: no reachable state has such a user, and no campaign is
\* ever stored.
SyncNeverRuns ==
    /\ \A i \in 1..Len(users) : users[i].googleAccessToken = "null"
    /\ campaigns = <<>>
    /\ currentCampaignId = InitialCampaignId

=============================================================================
